---- MODULE Spec2Model ----
(***************************************************************************)
(* Golden Wings: the naming engine (design_naming_conventions.py) and the  *)
(* classification engine (classify_content_types.py) as state machines,    *)
(* with the load of the classification config and calls of                 *)
(* replace_placeholders, derive_date, evaluate_condition and               *)
(* Trigger.matches on their own.                                           *)
(*                                                                         *)
(* Text is a sequence of one-character strings, so that substring search,  *)
(* str.replace, re.sub and Path.suffix are computed, not assumed.          *)
(* Optional JSON values are tagged records [t, v]: t = "int" carries the   *)
(* number in v, t = "null" is JSON null (Python None), t = "absent" is a   *)
(* key the object does not have.                                           *)
(***************************************************************************)
EXTENDS Integers, Sequences, FiniteSets, TLC

VARIABLES
    \* ---- naming run (process_classification) ----
    phase,            \* "idle" | "naming" | "done" | "raised"
    settings,         \* GlobalSettings after ensure_global_settings
    config,           \* NamingRules: category name -> category config
    curCategory,      \* key of Classifications whose files are being named
    seenCats,         \* keys of Classifications already visited
    rename_mappings,  \* the list built by process_classification
    summary,          \* TotalFiles / FilesRenamed / Conflicts / Errors
    candidates,       \* history: rename_mappings as handed to handle_conflicts
    consumed,         \* history: number of file entries read from the input
    failed,           \* history: number of file entries whose processing raised
    \* ---- classification run (Classifier.classify) ----
    cphase,           \* "idle" | "classify" | "returned"
    configs,          \* Classifier.configs: category name -> its triggers
    priority,         \* Classifier.priority
    records,          \* the FileRecord objects the loop has gone through, in order
    buckets,          \* bucket name -> positions in records
    errors,           \* the error counter of classify
    last_scores,      \* history: the score map handed to choose_best_category
    raised_at,        \* history: positions in records whose processing raised
    first_run,        \* the batch as a first call of classify left it, once a second call began
    \* ---- loading the classification config (load_config) ----
    lphase,           \* "idle" | "loading" | "loaded" | "aborted" | "constructed"
    explicit_priority, \* data["CategoryPriority"]
    payloads,         \* history: the trigger payloads read, one list for each category begun
    loaded_categories, \* the list of CategoryConfig built so far
    loaded_triggers,  \* the trigger list of the category being read
    load_priority,    \* the priority list load_config returns
    \* ---- one call of replace_placeholders ----
    pphase,           \* "idle" | "given" | "substituted"
    given_pattern,    \* the pattern handed to replace_placeholders
    given_mapping,    \* the mapping handed to replace_placeholders
    substituted,      \* the text replace_placeholders returned
    \* ---- one call of another function on its own ----
    callee,           \* "" | the name of the function called
    call_args,        \* the arguments of the call
    call_returned,    \* whether the call has returned
    call_result       \* what it returned

namingVars == <<phase, settings, config, curCategory, seenCats,
                rename_mappings, summary, candidates, consumed, failed>>

classifyVars == <<cphase, configs, priority, records, buckets, errors,
                  last_scores, raised_at, first_run>>

loadVars == <<lphase, explicit_priority, payloads, loaded_categories, loaded_triggers,
              load_priority>>

placeholderVars == <<pphase, given_pattern, given_mapping, substituted>>

callVars == <<callee, call_args, call_returned, call_result>>

vars == <<namingVars, classifyVars, loadVars, placeholderVars, callVars>>

\* what a naming run, a classification run, a load of the config, a call
\* of replace_placeholders and a call of another function leave alone
otherThanNaming == <<classifyVars, loadVars, placeholderVars, callVars>>
otherThanClassify == <<namingVars, loadVars, placeholderVars, callVars>>
otherThanLoad == <<namingVars, classifyVars, placeholderVars, callVars>>
otherThanPlaceholders == <<namingVars, classifyVars, loadVars, callVars>>
otherThanCall == <<namingVars, classifyVars, loadVars, placeholderVars>>

----------------------------------------------------------------------------
(* Bounds of the model *)

MaxFiles == 4

MaxRecords == 3
MaxTriggers == 2
MaxPattern == 4

----------------------------------------------------------------------------
(* Tagged optional values *)

IntVal(n) == [t |-> "int", v |-> n]
NullVal == [t |-> "null", v |-> 0]
AbsentVal == [t |-> "absent", v |-> 0]

----------------------------------------------------------------------------
(* Text primitives (Python str, re and pathlib as used by the code) *)

Digits == <<"0", "1", "2", "3", "4", "5", "6", "7", "8", "9">>

RECURSIVE IntStr(_)
IntStr(n) ==
    IF n < 10 THEN <<Digits[n + 1]>>
    ELSE IntStr(n \div 10) \o <<Digits[(n % 10) + 1]>>

UpperLetters == <<"A", "B", "C", "D", "E", "F", "G", "H", "I", "J", "K", "L", "M",
                  "N", "O", "P", "Q", "R", "S", "T", "U", "V", "W", "X", "Y", "Z">>
LowerLetters == <<"a", "b", "c", "d", "e", "f", "g", "h", "i", "j", "k", "l", "m",
                  "n", "o", "p", "q", "r", "s", "t", "u", "v", "w", "x", "y", "z">>

\* str.lower() on one character
LowerOf == [c \in {UpperLetters[i] : i \in 1..26} |->
               LowerLetters[CHOOSE i \in 1..26 : UpperLetters[i] = c]]

LowerChar(c) == IF c \in DOMAIN LowerOf THEN LowerOf[c] ELSE c

Lower(s) == [i \in 1..Len(s) |-> LowerChar(s[i])]

RECURSIVE Strip(_)
Strip(s) ==
    IF s = <<>> THEN s
    ELSE IF Head(s) = " " THEN Strip(Tail(s))
    ELSE IF s[Len(s)] = " " THEN Strip(SubSeq(s, 1, Len(s) - 1))
    ELSE s

StartsWith(s, t) == Len(t) <= Len(s) /\ SubSeq(s, 1, Len(t)) = t

MatchesAt(s, t, i) == i + Len(t) - 1 <= Len(s) /\ SubSeq(s, i, i + Len(t) - 1) = t

\* Python `t in s`
Contains(s, t) == \E i \in 1..(Len(s) - Len(t) + 1) : MatchesAt(s, t, i)

\* str.replace(old, new) for a non-empty old: leftmost, non-overlapping
RECURSIVE ReplaceFrom(_, _, _, _)
ReplaceFrom(s, old, new, i) ==
    IF i > Len(s) THEN <<>>
    ELSE IF MatchesAt(s, old, i) THEN new \o ReplaceFrom(s, old, new, i + Len(old))
    ELSE <<s[i]>> \o ReplaceFrom(s, old, new, i + 1)

StrReplace(s, old, new) == ReplaceFrom(s, old, new, 1)

LastIndexOf(s, c) ==
    IF \E i \in 1..Len(s) : s[i] = c
    THEN CHOOSE i \in 1..Len(s) : s[i] = c /\ \A j \in (i + 1)..Len(s) : s[j] # c
    ELSE 0

FirstIndexAfter(s, c, i) ==
    IF \E j \in (i + 1)..Len(s) : s[j] = c
    THEN CHOOSE j \in (i + 1)..Len(s) : s[j] = c /\ \A k \in (i + 1)..(j - 1) : s[k] # c
    ELSE 0

\* A regular expression is a sequence of atoms: a one-character string is
\* that character, WordBoundary is \b and SeparatorRun is [ _-]*
WordBoundary == "<b>"
SeparatorRun == "<sep*>"

\* the characters \w matches
WordChars ==
    {UpperLetters[i] : i \in 1..26} \cup {LowerLetters[i] : i \in 1..26}
        \cup {Digits[i] : i \in 1..10} \cup {"_"}

IsWordChar(c) == c \in WordChars

BoundaryAt(text, i) ==
    (i > 1 /\ IsWordChar(text[i - 1])) # (i <= Len(text) /\ IsWordChar(text[i]))

RECURSIVE MatchHere(_, _, _, _)
MatchHere(pattern, k, text, i) ==
    IF k > Len(pattern) THEN TRUE
    ELSE IF pattern[k] = WordBoundary
    THEN BoundaryAt(text, i) /\ MatchHere(pattern, k + 1, text, i)
    ELSE IF pattern[k] = SeparatorRun
    THEN \/ MatchHere(pattern, k + 1, text, i)
         \/ /\ i <= Len(text)
            /\ text[i] \in {" ", "_", "-"}
            /\ MatchHere(pattern, k, text, i + 1)
    ELSE /\ i <= Len(text)
         /\ LowerChar(text[i]) = LowerChar(pattern[k])
         /\ MatchHere(pattern, k + 1, text, i + 1)

\* pattern.search(text) for a pattern compiled with re.IGNORECASE
RegexSearch(pattern, text) == \E i \in 1..(Len(text) + 1) : MatchHere(pattern, 1, text, i)

\* pathlib: the final component, Path.suffix, Path.parent, the / operator
BaseName(p) == SubSeq(p, LastIndexOf(p, "/") + 1, Len(p))

PathSuffix(p) ==
    LET name == BaseName(p)
        i == LastIndexOf(name, ".")
    IN  IF 1 < i /\ i < Len(name) THEN SubSeq(name, i, Len(name)) ELSE <<>>

PathParent(p) ==
    LET i == LastIndexOf(p, "/")
    IN  IF i = 0 THEN <<".">>
        ELSE IF i = 1 THEN <<"/">>
        ELSE SubSeq(p, 1, i - 1)

PathJoin(dir, name) ==
    IF dir # <<>> /\ dir[Len(dir)] = "/" THEN dir \o name ELSE dir \o <<"/">> \o name

Unknown == <<"U", "n", "k", "n", "o", "w", "n">>

----------------------------------------------------------------------------
(* design_naming_conventions.py: pure functions *)

ScriptDir == <<"/", "s">>

normalize_extension(value) ==
    IF value = <<>> THEN <<>>
    ELSE LET clean_ext == Lower(Strip(value))
         IN  IF StartsWith(clean_ext, <<".">>) THEN clean_ext ELSE <<".">> \o clean_ext

normalize_keywords(values) == [i \in 1..Len(values) |-> Lower(values[i])]

\* context["keywords"] is built by iterating file_entry.get("Keywords", []):
\* a JSON null there is not iterable and raises inside the per-file try block
build_context(file_entry) ==
    [raised    |-> file_entry.Keywords.t = "null",
     file_name |-> file_entry.FileName,
     full_path |-> file_entry.FullPath,
     extension |-> normalize_extension(file_entry.Extension),
     keywords  |-> IF file_entry.Keywords.t = "list"
                   THEN normalize_keywords(file_entry.Keywords.v) ELSE <<>>]

SeqToSet(s) == {s[i] : i \in 1..Len(s)}

\* expected is a list of texts: a JSON string is the one-element list
evaluate_condition(key, expected, context) ==
    LET lowered == Lower(key)
    IN  IF lowered = <<"f", "i", "l", "e", "n", "a", "m", "e">>
        THEN RegexSearch(expected[1], context.file_name)
        ELSE IF lowered = <<"f", "u", "l", "l", "p", "a", "t", "h">>
        THEN context.full_path # <<>> /\ RegexSearch(expected[1], context.full_path)
        ELSE IF lowered = <<"k", "e", "y", "w", "o", "r", "d", "s">>
        THEN LET normalized == [i \in 1..Len(expected) |-> Lower(expected[i])]
                 keywords == SeqToSet(context.keywords)
             IN  normalized = <<>> \/ \A i \in 1..Len(normalized) : normalized[i] \in keywords
        ELSE IF lowered = <<"e", "x", "t", "e", "n", "s", "i", "o", "n">>
        THEN context.extension = normalize_extension(expected[1])
        ELSE FALSE

copy_mapping(mapping) == mapping

RuleMatches(rule, context) ==
    \A i \in 1..Len(rule.Condition) :
        evaluate_condition(rule.Condition[i].key, rule.Condition[i].expected, context)

\* the loop that goes on after a match: the last rule that matches is kept
RECURSIVE LastMatchingRule(_, _, _)
LastMatchingRule(rules, context, i) ==
    IF i > Len(rules) THEN 0
    ELSE IF LastMatchingRule(rules, context, i + 1) > 0
    THEN LastMatchingRule(rules, context, i + 1)
    ELSE IF RuleMatches(rules[i], context) THEN i
    ELSE 0

RECURSIVE FirstMatchingRule(_, _, _)
FirstMatchingRule(rules, context, i) ==
    IF i > Len(rules) THEN 0
    ELSE IF RuleMatches(rules[i], context) THEN i
    ELSE FirstMatchingRule(rules, context, i + 1)

apply_rules(category_config, context) ==
    LET i == FirstMatchingRule(category_config.Rules, context, 1)
    IN  IF i > 0 THEN copy_mapping(category_config.Rules[i].Mapping)
        ELSE copy_mapping(category_config.DefaultMapping)

HasKey(mapping, key) == \E i \in 1..Len(mapping) : mapping[i].key = key

\* mapping[key] = value on a dict that has no such key
SetNew(mapping, key, value) == Append(mapping, [key |-> key, value |-> value])

Token(key) == <<"{">> \o key \o <<"}">>

RECURSIVE SubstituteItems(_, _)
SubstituteItems(result, items) ==
    IF items = <<>> THEN result
    ELSE LET text == Head(items).value
         IN  SubstituteItems(
                 StrReplace(result, Token(Head(items).key),
                            IF text # <<>> THEN text ELSE Unknown),
                 Tail(items))

\* re.sub(r"\{[^}]+\}", "Unknown", s): from a "{", up to the first "}" after it,
\* with at least one character between them
RECURSIVE SubBraces(_, _)
SubBraces(s, i) ==
    IF i > Len(s) THEN <<>>
    ELSE LET close == FirstIndexAfter(s, "}", i)
         IN  IF s[i] = "{" /\ close >= i + 2
             THEN Unknown \o SubBraces(s, close + 1)
             ELSE <<s[i]>> \o SubBraces(s, i + 1)

replace_placeholders(pattern, mapping) == SubBraces(SubstituteItems(pattern, mapping), 1)

resolve_destination(file_entry, script_dir, preserve_paths) ==
    IF preserve_paths /\ file_entry.FullPath # <<>> THEN PathParent(file_entry.FullPath)
    ELSE IF preserve_paths /\ file_entry.Directory # <<>> THEN file_entry.Directory
    ELSE script_dir

\* str(x) of a JSON number, null, or of the default given for a missing key
ValueText(x, default) ==
    IF x.t = "int" THEN IntStr(x.v)
    ELSE IF x.t = "null" THEN <<"N", "o", "n", "e">>
    ELSE default

----------------------------------------------------------------------------
(* Dates: translate_date_format, derive_date, strftime *)

IsDigit(c) == \E k \in 1..10 : Digits[k] = c

DigitValue(c) == (CHOOSE k \in 1..10 : Digits[k] = c) - 1

RECURSIVE ParseInt(_)
ParseInt(s) ==
    IF s = <<>> THEN 0
    ELSE 10 * ParseInt(SubSeq(s, 1, Len(s) - 1)) + DigitValue(s[Len(s)])

AllDigits(s, from, to) == to <= Len(s) /\ \A k \in from..to : IsDigit(s[k])

\* zero-padded decimal of the given width
RECURSIVE Padded(_, _)
Padded(n, width) ==
    IF width = 0 THEN <<>> ELSE Padded(n \div 10, width - 1) \o <<Digits[(n % 10) + 1]>>

DATE_FORMAT_REPLACEMENTS ==
    << <<<<"y", "y", "y", "y">>, <<"%", "Y">>>>,
       <<<<"y", "y", "y">>,      <<"%", "Y">>>>,
       <<<<"y", "y">>,           <<"%", "y">>>>,
       <<<<"M", "M">>,           <<"%", "m">>>>,
       <<<<"d", "d">>,           <<"%", "d">>>>,
       <<<<"H", "H">>,           <<"%", "H">>>>,
       <<<<"h", "h">>,           <<"%", "I">>>>,
       <<<<"m", "m">>,           <<"%", "M">>>>,
       <<<<"s", "s">>,           <<"%", "S">>>> >>

RECURSIVE TranslateFrom(_, _)
TranslateFrom(result, k) ==
    IF k > Len(DATE_FORMAT_REPLACEMENTS) THEN result
    ELSE TranslateFrom(StrReplace(result, DATE_FORMAT_REPLACEMENTS[k][1],
                                  DATE_FORMAT_REPLACEMENTS[k][2]), k + 1)

translate_date_format(net_format) == TranslateFrom(net_format, 1)

IsLeap(y) == (y % 4 = 0 /\ y % 100 # 0) \/ y % 400 = 0

DaysIn(y, m) ==
    IF m = 2 THEN (IF IsLeap(y) THEN 29 ELSE 28)
    ELSE IF m \in {4, 6, 9, 11} THEN 30 ELSE 31

ValidDate(y, m, d) == y >= 1 /\ m \in 1..12 /\ d >= 1 /\ d <= DaysIn(y, m)

ValidTime(h, mi, sec) == h <= 23 /\ mi <= 59 /\ sec <= 61

DateTime(y, m, d, h, mi, sec) == [Y |-> y, M |-> m, D |-> d, h |-> h, mi |-> mi, s |-> sec]

NoDate == DateTime(0, 0, 0, 0, 0, 0)

\* DATE_TOKEN_PATTERN: (\d{4})(\d{2})(\d{2}) | (\d{4})[-_](\d{2})[-_](\d{2})
CompactTokenAt(s, i) == AllDigits(s, i, i + 7)

SeparatedTokenAt(s, i) ==
    /\ i + 9 <= Len(s)
    /\ AllDigits(s, i, i + 3) /\ s[i + 4] \in {"-", "_"}
    /\ AllDigits(s, i + 5, i + 6) /\ s[i + 7] \in {"-", "_"}
    /\ AllDigits(s, i + 8, i + 9)

\* re.search: the leftmost position where an alternative matches, or 0
TokenPosition(s) ==
    IF \E i \in 1..Len(s) : CompactTokenAt(s, i) \/ SeparatedTokenAt(s, i)
    THEN CHOOSE i \in 1..Len(s) :
            /\ CompactTokenAt(s, i) \/ SeparatedTokenAt(s, i)
            /\ \A j \in 1..(i - 1) : ~(CompactTokenAt(s, j) \/ SeparatedTokenAt(s, j))
    ELSE 0

\* the date of the token matched at position i, or NoDate when strptime rejects it
TokenDateAt(s, i) ==
    LET compact == CompactTokenAt(s, i)
        y == ParseInt(SubSeq(s, i, i + 3))
        m == IF compact THEN ParseInt(SubSeq(s, i + 4, i + 5))
             ELSE ParseInt(SubSeq(s, i + 5, i + 6))
        d == IF compact THEN ParseInt(SubSeq(s, i + 6, i + 7))
             ELSE ParseInt(SubSeq(s, i + 8, i + 9))
    IN  IF i > 0 /\ ValidDate(y, m, d) THEN DateTime(y, m, d, 0, 0, 0) ELSE NoDate

TokenDate(s) == TokenDateAt(s, TokenPosition(s))

\* the formats tried on Modified, for zero-padded values:
\* YYYY-MM-DD, optionally followed by "T" or " " and HH:MM:SS
ParseModified(v) ==
    LET dated == /\ Len(v) >= 10 /\ AllDigits(v, 1, 4) /\ v[5] = "-"
                 /\ AllDigits(v, 6, 7) /\ v[8] = "-" /\ AllDigits(v, 9, 10)
        timed == /\ Len(v) = 19 /\ v[11] \in {"T", " "}
                 /\ AllDigits(v, 12, 13) /\ v[14] = ":" /\ AllDigits(v, 15, 16)
                 /\ v[17] = ":" /\ AllDigits(v, 18, 19)
        y == ParseInt(SubSeq(v, 1, 4))
        m == ParseInt(SubSeq(v, 6, 7))
        d == ParseInt(SubSeq(v, 9, 10))
        h == ParseInt(SubSeq(v, 12, 13))
        mi == ParseInt(SubSeq(v, 15, 16))
        sec == ParseInt(SubSeq(v, 18, 19))
    IN  IF dated /\ Len(v) = 10 /\ ValidDate(y, m, d) THEN DateTime(y, m, d, 0, 0, 0)
        ELSE IF dated /\ timed /\ ValidDate(y, m, d) /\ ValidTime(h, mi, sec)
        THEN DateTime(y, m, d, h, mi, sec)
        ELSE NoDate

\* the first of: the file name's token, the parsed Modified value, the clock
FirstDate(from_name, from_modified, now) ==
    IF from_name # NoDate THEN from_name
    ELSE IF from_modified # NoDate THEN from_modified
    ELSE now

derive_date(file_name, modified_value, now) ==
    FirstDate(TokenDate(file_name),
              IF modified_value # <<>> THEN ParseModified(modified_value) ELSE NoDate,
              now)

\* datetime.strftime for the directives translate_date_format produces
Directive(date, c) ==
    IF c = "Y" THEN Padded(date.Y, 4)
    ELSE IF c = "y" THEN Padded(date.Y % 100, 2)
    ELSE IF c = "m" THEN Padded(date.M, 2)
    ELSE IF c = "d" THEN Padded(date.D, 2)
    ELSE IF c = "H" THEN Padded(date.h, 2)
    ELSE IF c = "I" THEN Padded(IF date.h % 12 = 0 THEN 12 ELSE date.h % 12, 2)
    ELSE IF c = "M" THEN Padded(date.mi, 2)
    ELSE IF c = "S" THEN Padded(date.s, 2)
    ELSE IF c = "%" THEN <<"%">>
    ELSE <<"%", c>>

RECURSIVE FormatFrom(_, _, _)
FormatFrom(date, format, i) ==
    IF i > Len(format) THEN <<>>
    ELSE IF format[i] = "%" /\ i < Len(format)
    THEN Directive(date, format[i + 1]) \o FormatFrom(date, format, i + 2)
    ELSE <<format[i]>> \o FormatFrom(date, format, i + 1)

strftime(date, format) == FormatFrom(date, format, 1)

----------------------------------------------------------------------------
(* handle_conflicts *)

\* entry.get("OriginalFile", {}).get("Score", 0)
ScoreKey(entry) ==
    IF entry.OriginalFile.Score.t = "absent" THEN IntVal(0) ELSE entry.OriginalFile.Score

\* by_path: the keys in first-appearance order, each with its entries in list order
RECURSIVE DistinctPaths(_, _, _)
DistinctPaths(mappings, i, acc) ==
    IF i > Len(mappings) THEN acc
    ELSE IF \E k \in 1..Len(acc) : acc[k] = mappings[i].NewPath
    THEN DistinctPaths(mappings, i + 1, acc)
    ELSE DistinctPaths(mappings, i + 1, Append(acc, mappings[i].NewPath))

RECURSIVE EntriesAt(_, _, _)
EntriesAt(mappings, path, i) ==
    IF i > Len(mappings) THEN <<>>
    ELSE IF mappings[i].NewPath = path THEN <<i>> \o EntriesAt(mappings, path, i + 1)
    ELSE EntriesAt(mappings, path, i + 1)

ConflictGroups(mappings) ==
    LET paths == DistinctPaths(mappings, 1, <<>>)
        groups == [k \in 1..Len(paths) |-> EntriesAt(mappings, paths[k], 1)]
    IN  SelectSeq(groups, LAMBDA g : Len(g) > 1)

\* a descending sort that is not stable: x goes in front of its equals
RECURSIVE InsertDescendingUnstable(_, _, _)
InsertDescendingUnstable(mappings, sorted, x) ==
    IF sorted = <<>> THEN <<x>>
    ELSE IF ScoreKey(mappings[Head(sorted)]).v > ScoreKey(mappings[x]).v
    THEN <<Head(sorted)>> \o InsertDescendingUnstable(mappings, Tail(sorted), x)
    ELSE <<x>> \o sorted

\* list.sort(key=Score, reverse=True): stable, descending.  x goes behind every
\* element whose key is not smaller than its own.
RECURSIVE InsertDescending(_, _, _)
InsertDescending(mappings, sorted, x) ==
    IF sorted = <<>> THEN <<x>>
    ELSE IF ScoreKey(mappings[Head(sorted)]).v >= ScoreKey(mappings[x]).v
    THEN <<Head(sorted)>> \o InsertDescending(mappings, Tail(sorted), x)
    ELSE <<x>> \o sorted

RECURSIVE SortByScore(_, _)
SortByScore(mappings, items) ==
    IF items = <<>> THEN <<>>
    ELSE InsertDescending(mappings,
                          SortByScore(mappings, SubSeq(items, 1, Len(items) - 1)),
                          items[Len(items)])

\* comparing None with a number (or with None) raises TypeError in the sort
SortRaises(mappings, items) ==
    Len(items) > 1 /\ \E k \in 1..Len(items) : ScoreKey(mappings[items[k]]).t = "null"

\* the loop body with the version number taken from the 0-based index
RewriteEntryZeroBased(entry, index, strategy) ==
    LET rank == ValueText(entry.OriginalFile.Rank, <<"?">>)
        name == entry.NewFileName
        extension == PathSuffix(name)
        stem == IF extension # <<>> THEN SubSeq(name, 1, Len(name) - Len(extension))
                ELSE name
        renamed == IF strategy = "AddVersion"
                   THEN stem \o <<"_", "v">> \o IntStr(index) \o extension
                   ELSE stem \o <<"_", "r", "a", "n", "k">> \o rank \o extension
    IN  IF index = 0 THEN entry
        ELSE IF strategy \in {"AddVersion", "AppendRank"}
        THEN [entry EXCEPT !.NewFileName = renamed,
                           !.NewPath = PathJoin(PathParent(entry.NewPath), renamed)]
        ELSE entry

\* the loop body without `if index == 0: continue`: the first entry of the
\* sorted group is renamed as well
RewriteEntryWithTop(entry, index, strategy) ==
    RewriteEntryZeroBased(entry, index + 1, strategy)

\* the body of `for index, entry in enumerate(items)` (index is 0-based)
RewriteEntry(entry, index, strategy) ==
    LET rank == ValueText(entry.OriginalFile.Rank, <<"?">>)
        name == entry.NewFileName
        extension == PathSuffix(name)
        stem == IF extension # <<>> THEN SubSeq(name, 1, Len(name) - Len(extension))
                ELSE name
        renamed == IF strategy = "AddVersion"
                   THEN stem \o <<"_", "v">> \o IntStr(index + 1) \o extension
                   ELSE stem \o <<"_", "r", "a", "n", "k">> \o rank \o extension
    IN  IF index = 0 THEN entry
        ELSE IF strategy \in {"AddVersion", "AppendRank"}
        THEN [entry EXCEPT !.NewFileName = renamed,
                           !.NewPath = PathJoin(PathParent(entry.NewPath), renamed)]
        ELSE entry

PositionIn(items, x) == CHOOSE k \in 1..Len(items) : items[k] = x

RewriteSorted(mappings, sorted, strategy) ==
    [i \in 1..Len(mappings) |->
        IF \E k \in 1..Len(sorted) : sorted[k] = i
        THEN RewriteEntry(mappings[i], PositionIn(sorted, i) - 1, strategy)
        ELSE mappings[i]]

ResolveGroup(mappings, items, strategy) ==
    RewriteSorted(mappings, SortByScore(mappings, items), strategy)

RECURSIVE ResolveGroups(_, _, _)
ResolveGroups(mappings, groups, strategy) ==
    IF groups = <<>> THEN mappings
    ELSE ResolveGroups(ResolveGroup(mappings, Head(groups), strategy), Tail(groups), strategy)

AnySortRaises(mappings, groups) ==
    \E k \in 1..Len(groups) : SortRaises(mappings, groups[k])

RECURSIVE TotalLength(_)
TotalLength(groups) ==
    IF groups = <<>> THEN 0 ELSE Len(Head(groups)) + TotalLength(Tail(groups))

\* the loop over conflict_groups, returning the number of conflicting entries
ResolveAllCountingEntries(mappings, conflict_groups, strategy) ==
    [raised   |-> AnySortRaises(mappings, conflict_groups),
     mappings |-> IF AnySortRaises(mappings, conflict_groups) THEN mappings
                  ELSE ResolveGroups(mappings, conflict_groups, strategy),
     count    |-> TotalLength(conflict_groups)]

\* the loop over conflict_groups, and the return value len(conflict_groups)
ResolveAll(mappings, conflict_groups, strategy) ==
    [raised   |-> AnySortRaises(mappings, conflict_groups),
     mappings |-> IF AnySortRaises(mappings, conflict_groups) THEN mappings
                  ELSE ResolveGroups(mappings, conflict_groups, strategy),
     count    |-> Len(conflict_groups)]

\* [raised, mappings, count]: the entries are rewritten in place
handle_conflicts(mappings, global_settings) ==
    ResolveAll(mappings, ConflictGroups(mappings), global_settings.HandleDuplicates)

----------------------------------------------------------------------------
(* process_classification *)

ensure_global_settings(raw) ==
    [DateFormat       |-> IF raw.DateFormat.t = "absent"
                          THEN <<"y", "y", "y", "y", "-", "M", "M", "-", "d", "d">>
                          ELSE raw.DateFormat.v,
     HandleDuplicates |-> IF raw.HandleDuplicates = "<absent>" THEN "AddVersion"
                          ELSE raw.HandleDuplicates,
     PreservePaths    |-> IF raw.PreservePaths = "<absent>" THEN TRUE
                          ELSE raw.PreservePaths = "true"]

DateKey == <<"D", "a", "t", "e">>
ExtKey == <<"e", "x", "t">>
RankKey == <<"R", "a", "n", "k">>

\* lines 272-278: the placeholders filled in when the pattern names them and
\* the chosen mapping does not
WithDate(pattern, mapping, file_name, modified_value, date_format, now) ==
    IF Contains(pattern, Token(DateKey)) /\ ~HasKey(mapping, DateKey)
    THEN SetNew(mapping, DateKey,
                strftime(derive_date(file_name, modified_value, now), date_format))
    ELSE mapping

\* ext filled in whether or not the pattern names it
WithExtUnasked(pattern, mapping, extension) ==
    IF ~HasKey(mapping, ExtKey) THEN SetNew(mapping, ExtKey, extension) ELSE mapping

WithExt(pattern, mapping, extension) ==
    IF Contains(pattern, Token(ExtKey)) /\ ~HasKey(mapping, ExtKey)
    THEN SetNew(mapping, ExtKey, extension)
    ELSE mapping

WithRank(pattern, mapping, rank) ==
    IF Contains(pattern, Token(RankKey)) /\ ~HasKey(mapping, RankKey)
    THEN SetNew(mapping, RankKey, ValueText(rank, <<>>))
    ELSE mapping

AutoPopulate(pattern, mapping, context, file_entry, date_format, now) ==
    WithRank(pattern,
             WithExt(pattern,
                     WithDate(pattern, mapping, context.file_name, file_entry.Modified,
                              date_format, now),
                     context.extension),
             file_entry.Rank)

\* lines 279-295: the entry appended for a file, or the raise that counts it
\* as an error
BuildEntry(category_name, pattern, file_entry, mapping, new_file_name, destination) ==
    IF new_file_name = <<>>
    THEN [ok |-> FALSE, entry |-> <<>>]
    ELSE [ok |-> TRUE,
          entry |-> [OriginalFile |-> file_entry,
                     Category     |-> category_name,
                     OldFileName  |-> file_entry.FileName,
                     NewFileName  |-> new_file_name,
                     OldPath      |-> file_entry.FullPath,
                     NewPath      |-> PathJoin(destination, new_file_name),
                     Mapping      |-> mapping,
                     PatternUsed  |-> pattern]]

NameWithMapping(category_name, pattern, file_entry, mapping, preserve_paths) ==
    BuildEntry(category_name, pattern, file_entry, mapping,
               replace_placeholders(pattern, mapping),
               resolve_destination(file_entry, ScriptDir, preserve_paths))

NameInContext(category_name, category_config, file_entry, global_settings, now, context) ==
    IF context.raised THEN [ok |-> FALSE, entry |-> <<>>]
    ELSE NameWithMapping(category_name, category_config.Pattern, file_entry,
                         AutoPopulate(category_config.Pattern,
                                      apply_rules(category_config, context),
                                      context, file_entry,
                                      translate_date_format(global_settings.DateFormat),
                                      now),
                         global_settings.PreservePaths)

\* copy_mapping returns its argument itself when that is not empty
ReturnsArgument(mapping) == mapping = <<>>

\* copy_mapping returns an object of its own: {} or a deepcopy
CopyIsNewObject(mapping) == TRUE

\* the place of the config apply_rules took the mapping from
ChosenMapping(category_config, slot) ==
    IF slot > 0 THEN category_config.Rules[slot].Mapping ELSE category_config.DefaultMapping

\* lines 274-278 write into the mapping object: where that object is the one
\* of the config, the config holds the keys written
WrittenTo(category_config, slot, mapping) ==
    IF CopyIsNewObject(ChosenMapping(category_config, slot)) THEN category_config
    ELSE IF slot > 0 THEN [category_config EXCEPT !.Rules[slot].Mapping = mapping]
    ELSE [category_config EXCEPT !.DefaultMapping = mapping]

ConfigInContext(category_config, file_entry, global_settings, now, context) ==
    IF context.raised THEN category_config
    ELSE WrittenTo(category_config,
                   FirstMatchingRule(category_config.Rules, context, 1),
                   AutoPopulate(category_config.Pattern,
                                apply_rules(category_config, context),
                                context, file_entry,
                                translate_date_format(global_settings.DateFormat),
                                now))

\* the rule set of the category after the per-file try block
ConfigAfter(category_config, file_entry, global_settings, now) ==
    ConfigInContext(category_config, file_entry, global_settings, now,
                    build_context(file_entry))

\* the body of the per-file try block: [ok, entry]
NameOne(category_name, category_config, file_entry, global_settings, now) ==
    NameInContext(category_name, category_config, file_entry, global_settings, now,
                  build_context(file_entry))

\* a key of Classifications is visited once; its files are named one after another
MayVisit(category_name) == category_name = curCategory \/ category_name \notin seenCats

HasRules(category_name) == category_name \in DOMAIN config

HasPattern(category_name) == HasRules(category_name) /\ config[category_name].Pattern # <<>>

\* `if not files: continue`: a key with an empty list changes nothing
EmptyCategory(category_name) ==
    /\ phase = "naming"
    /\ category_name \notin seenCats
    /\ UNCHANGED vars

\* a skipped category counted as one error, whatever the number of its files
SkipCategoryCountingOne(category_name, count) ==
    /\ phase = "naming"
    /\ category_name \notin seenCats
    /\ ~HasPattern(category_name)
    /\ count >= 1 /\ consumed + count <= MaxFiles
    /\ summary' = [summary EXCEPT !.Errors = @ + 1]
    /\ curCategory' = category_name
    /\ seenCats' = seenCats \cup {category_name}
    /\ consumed' = consumed + count
    /\ UNCHANGED <<phase, settings, config, rename_mappings, candidates, failed>>
    /\ UNCHANGED otherThanNaming

\* no rule set, or a rule set without a pattern: the files count as errors
SkipCategory(category_name, count) ==
    /\ phase = "naming"
    /\ category_name \notin seenCats
    /\ ~HasPattern(category_name)
    /\ count >= 1 /\ consumed + count <= MaxFiles
    /\ summary' = [summary EXCEPT !.Errors = @ + count]
    /\ curCategory' = category_name
    /\ seenCats' = seenCats \cup {category_name}
    /\ consumed' = consumed + count
    /\ UNCHANGED <<phase, settings, config, rename_mappings, candidates, failed>>
    /\ UNCHANGED otherThanNaming

\* TotalFiles counted next to FilesRenamed, after the name has been built
RecordedAfterNaming(outcome) ==
    /\ rename_mappings' = IF outcome.ok THEN Append(rename_mappings, outcome.entry)
                          ELSE rename_mappings
    /\ summary' = [summary EXCEPT
                     !.TotalFiles = IF outcome.ok THEN @ + 1 ELSE @,
                     !.FilesRenamed = IF outcome.ok THEN @ + 1 ELSE @,
                     !.Errors = IF outcome.ok THEN @ ELSE @ + 1]
    /\ failed' = IF outcome.ok THEN failed ELSE failed + 1

\* the counters and the list after one file: TotalFiles first, then either the
\* append and FilesRenamed, or Errors
Recorded(outcome) ==
    /\ rename_mappings' = IF outcome.ok THEN Append(rename_mappings, outcome.entry)
                          ELSE rename_mappings
    /\ summary' = [summary EXCEPT
                     !.TotalFiles = @ + 1,
                     !.FilesRenamed = IF outcome.ok THEN @ + 1 ELSE @,
                     !.Errors = IF outcome.ok THEN @ ELSE @ + 1]
    /\ failed' = IF outcome.ok THEN failed ELSE failed + 1

\* an iteration of the loop that may also come after handle_conflicts
NameFileInAnyPhase(category_name, file_entry, now) ==
    /\ phase \in {"naming", "done"}
    /\ MayVisit(category_name)
    /\ HasPattern(category_name)
    /\ consumed < MaxFiles
    /\ Recorded(NameOne(category_name, config[category_name], file_entry, settings, now))
    /\ config' = [config EXCEPT ![category_name] =
                     ConfigAfter(config[category_name], file_entry, settings, now)]
    /\ curCategory' = category_name
    /\ seenCats' = seenCats \cup {category_name}
    /\ consumed' = consumed + 1
    /\ UNCHANGED <<phase, settings, candidates>>
    /\ UNCHANGED otherThanNaming

\* one iteration of `for file_entry in files`
NameFile(category_name, file_entry, now) ==
    /\ phase = "naming"
    /\ MayVisit(category_name)
    /\ HasPattern(category_name)
    /\ consumed < MaxFiles
    /\ Recorded(NameOne(category_name, config[category_name], file_entry, settings, now))
    /\ config' = [config EXCEPT ![category_name] =
                     ConfigAfter(config[category_name], file_entry, settings, now)]
    /\ curCategory' = category_name
    /\ seenCats' = seenCats \cup {category_name}
    /\ consumed' = consumed + 1
    /\ UNCHANGED <<phase, settings, candidates>>
    /\ UNCHANGED otherThanNaming

Returned(result) ==
    /\ rename_mappings' = result.mappings
    /\ summary' = IF result.raised THEN summary
                  ELSE [summary EXCEPT !.Conflicts = result.count]
    /\ phase' = IF result.raised THEN "raised" ELSE "done"

\* lines 303-308: every key has been visited; handle_conflicts, then the return
\* (a TypeError from the sort leaves process_classification without a result)
ResolveConflicts ==
    /\ phase = "naming"
    /\ candidates' = rename_mappings
    /\ Returned(handle_conflicts(rename_mappings, settings))
    /\ UNCHANGED <<settings, config, curCategory, seenCats, consumed, failed>>
    /\ UNCHANGED otherThanNaming

----------------------------------------------------------------------------
(* classify_content_types.py *)

\* each pattern with the label it yields
PERSON_PATTERNS ==
    <<
      [pattern |-> <<WordBoundary, "c", "a", "l", "e", "b", WordBoundary>>,
       label |-> "Caleb_Stewart"],
      [pattern |-> <<WordBoundary, "r", "o", "b", "y", "n", WordBoundary>>,
       label |-> "Robyn_Stewart"],
      [pattern |-> <<WordBoundary, "h", "e", "n", "r", "y", WordBoundary>>,
       label |-> "Henry_Stewart"],
      [pattern |-> <<WordBoundary, "j", "a", "y", WordBoundary>>,
       label |-> "Jay_Ricks"],
      [pattern |-> <<WordBoundary, "j", "o", "c", "k", WordBoundary>>,
       label |-> "Jock_Bethune"],
      [pattern |-> <<WordBoundary, "b", "e", "t", "h", "u", "n", "e", WordBoundary>>,
       label |-> "Jock_Bethune"],
      [pattern |-> <<WordBoundary, "s", "t", "e", "w", "a", "r", "t", WordBoundary>>,
       label |-> "Stewart_Family"]
    >>

\* each pattern with the festival it names
FESTIVAL_PATTERNS ==
    <<
      [pattern |-> <<"a", "l", "l", SeparatorRun, "a", "r", "o", "u", "n", "d">>,
       label |-> "All_Around_Film_Festival"],
      [pattern |-> <<"s", "u", "n", "d", "a", "n", "c", "e">>,
       label |-> "Sundance_Film_Festival"],
      [pattern |-> <<"t", "r", "i", "b", "e", "c", "a">>,
       label |-> "Tribeca_Film_Festival"],
      [pattern |-> <<"o", "u", "t", "f", "e", "s", "t">>,
       label |-> "Outfest"],
      [pattern |-> <<"s", "l", "a", "m", "d", "a", "n", "c", "e">>,
       label |-> "Slamdance"]
    >>

\* each pattern with the flag it belongs to
CONTEXT_PATTERNS ==
    <<
      [pattern |-> <<"b", "e", "h", "i", "n", "d", SeparatorRun, "t", "h", "e", SeparatorRun, "s", "c", "e", "n", "e", "s">>,
       label |-> "production_meta"],
      [pattern |-> <<WordBoundary, "p", "r", "o", "d", "u", "c", "t", "i", "o", "n", WordBoundary>>,
       label |-> "production_meta"],
      [pattern |-> <<WordBoundary, "w", "o", "r", "k", "f", "l", "o", "w", WordBoundary>>,
       label |-> "production_meta"],
      [pattern |-> <<"f", "i", "l", "m", SeparatorRun, "j", "o", "u", "r", "n", "e", "y">>,
       label |-> "production_meta"],
      [pattern |-> <<WordBoundary, "h", "i", "s", "t", "o", "r", "y", WordBoundary>>,
       label |-> "subject_research"],
      [pattern |-> <<WordBoundary, "r", "e", "s", "e", "a", "r", "c", "h", WordBoundary>>,
       label |-> "subject_research"],
      [pattern |-> <<WordBoundary, "b", "a", "c", "k", "g", "r", "o", "u", "n", "d", WordBoundary>>,
       label |-> "subject_research"],
      [pattern |-> <<WordBoundary, "m", "i", "x", "d", "o", "w", "n", WordBoundary>>,
       label |-> "technical_interview"],
      [pattern |-> <<WordBoundary, "a", "u", "d", "i", "o", WordBoundary>>,
       label |-> "technical_interview"]
    >>

\* the labels of the patterns of a table found in text
LabelsFound(patterns, text) ==
    {patterns[k].label : k \in {j \in 1..Len(patterns) : RegexSearch(patterns[j].pattern, text)}}

\* " ".join(parts)
RECURSIVE Join(_)
Join(parts) ==
    IF parts = <<>> THEN <<>>
    ELSE IF Len(parts) = 1 THEN Head(parts)
    ELSE Head(parts) \o <<" ">> \o Join(Tail(parts))

NonEmpty(part) == part # <<>>

\* the empty dict: .get("Festivals", []) and .get("ContextFlags", []) read it
\* as no festival and no flag
NoInsights == [Persons |-> {}, Festivals |-> {}, ContextFlags |-> {}]

\* `x or y` on two texts
OrElse(x, y) == IF x # <<>> THEN x ELSE y

\* FileRecord.__post_init__ on the raw fields FileName, FullPath, Directory,
\* Keywords and Extension (an absent or null field is the empty text)
WithExtraText(record) ==
    [record EXCEPT !.extra_text =
        Join(SelectSeq(<<record.file_name, record.full_path, record.directory,
                         Join(record.keywords)>>, NonEmpty))]

FileRecord(raw) ==
    WithExtraText(
        [raw               |-> raw,
         file_name         |-> OrElse(raw.FileName, BaseName(raw.FullPath)),
         full_path         |-> raw.FullPath,
         directory         |-> raw.Directory,
         keywords          |-> raw.Keywords,
         keywords_lower    |-> {Lower(raw.Keywords[k]) : k \in 1..Len(raw.Keywords)},
         extension         |-> IF raw.Extension # <<>> /\ ~StartsWith(raw.Extension, <<".">>)
                               THEN <<".">> \o raw.Extension ELSE raw.Extension,
         extension_lower   |-> IF raw.Extension # <<>> /\ ~StartsWith(raw.Extension, <<".">>)
                               THEN Lower(<<".">> \o raw.Extension) ELSE Lower(raw.Extension),
         extra_text        |-> <<>>,
         insights          |-> NoInsights,
         category_scores   |-> <<>>,
         matched_triggers  |-> <<>>,
         winning_category  |-> "Unknown",
         winning_score     |-> 0])

get_text_for_target(record, target) ==
    IF target = <<>> THEN record.file_name
    ELSE IF Lower(target) \in {<<"f", "i", "l", "e", "n", "a", "m", "e">>, <<"n", "a", "m", "e">>}
    THEN record.file_name
    ELSE IF Lower(target) \in {<<"f", "u", "l", "l", "p", "a", "t", "h">>, <<"p", "a", "t", "h">>}
    THEN record.full_path
    ELSE IF Lower(target) \in {<<"d", "i", "r", "e", "c", "t", "o", "r", "y">>,
                               <<"f", "o", "l", "d", "e", "r">>}
    THEN record.directory
    ELSE IF Lower(target) = <<"k", "e", "y", "w", "o", "r", "d", "s">>
    THEN Join(record.keywords)
    ELSE record.file_name

\* the festivals found, or the generic "Festival" for a festival keyword
FestivalsOr(found, keywords_lower) ==
    IF <<"f", "e", "s", "t", "i", "v", "a", "l">> \in keywords_lower /\ found = {}
    THEN {"Festival"} ELSE found

\* the sorted lists of labels are kept as sets
prepare_insights(record) ==
    [record EXCEPT !.insights =
        [Persons      |-> LabelsFound(PERSON_PATTERNS, record.extra_text),
         Festivals    |-> FestivalsOr(LabelsFound(FESTIVAL_PATTERNS, record.extra_text),
                                      record.keywords_lower),
         ContextFlags |-> LabelsFound(CONTEXT_PATTERNS, record.extra_text)]]

\* Trigger: type, score (a tagged value: dataclass fields are not checked),
\* target, pattern (tagged: "re" with its atoms, or "null") and values
RegexTrigger(score, target, pattern) ==
    [type |-> "regex", score |-> score, target |-> target,
     pattern |-> [t |-> "re", v |-> pattern], values |-> <<>>]

KeywordTrigger(score, values) ==
    [type |-> "keyword", score |-> score, target |-> <<"F", "i", "l", "e", "N", "a", "m", "e">>,
     pattern |-> [t |-> "null", v |-> <<>>], values |-> values]

ExtensionTrigger(score, values) ==
    [type |-> "extension", score |-> score, target |-> <<"F", "i", "l", "e", "N", "a", "m", "e">>,
     pattern |-> [t |-> "null", v |-> <<>>], values |-> values]

\* Trigger.matches
matches(trigger, record) ==
    IF trigger.type = "regex"
    THEN /\ get_text_for_target(record, trigger.target) # <<>>
         /\ trigger.pattern.t = "re"
         /\ RegexSearch(trigger.pattern.v, get_text_for_target(record, trigger.target))
    ELSE IF trigger.type = "keyword"
    THEN \E k \in 1..Len(trigger.values) : trigger.values[k] \in record.keywords_lower
    ELSE IF trigger.type = "extension"
    THEN \E k \in 1..Len(trigger.values) : trigger.values[k] = record.extension_lower
    ELSE FALSE

\* an entry of the trace kept in matches[name]
TraceEntry(type, reason, score) == [type |-> type, reason |-> reason, score |-> score]

\* Trigger.describe
describe(trigger) ==
    TraceEntry(IF trigger.type = "regex" THEN "Regex"
               ELSE IF trigger.type = "keyword" THEN "Keyword"
               ELSE IF trigger.type = "extension" THEN "Extension"
               ELSE trigger.type,
               "", trigger.score.v)

\* the loop over config.triggers of one category: acc is [score, trace, raised];
\* `scores[name] += trigger.score` raises TypeError for a score that is no number
RECURSIVE ScoreTriggers(_, _, _)
ScoreTriggers(triggers, record, acc) ==
    IF triggers = <<>> \/ acc.raised THEN acc
    ELSE IF ~matches(Head(triggers), record) THEN ScoreTriggers(Tail(triggers), record, acc)
    ELSE IF Head(triggers).score.t # "int" THEN [acc EXCEPT !.raised = TRUE]
    ELSE ScoreTriggers(Tail(triggers), record,
                       [acc EXCEPT !.score = @ + Head(triggers).score.v,
                                   !.trace = Append(@, describe(Head(triggers)))])

\* the score and the trace of one category written into the maps
Tallied(acc, name, result) ==
    [scores  |-> [acc.scores EXCEPT ![name] = result.score],
     matches |-> [acc.matches EXCEPT ![name] = result.trace],
     raised  |-> result.raised]

\* the loop over self.priority: acc is [scores, matches, raised]
RECURSIVE ScoreCategories(_, _, _, _)
ScoreCategories(names, category_configs, record, acc) ==
    IF names = <<>> \/ acc.raised THEN acc
    ELSE IF Head(names) \notin DOMAIN category_configs
    THEN ScoreCategories(Tail(names), category_configs, record, acc)
    ELSE ScoreCategories(Tail(names), category_configs, record,
            Tallied(acc, Head(names),
                    ScoreTriggers(category_configs[Head(names)], record,
                                  [score |-> 0, trace |-> <<>>, raised |-> FALSE])))

\* a bonus rule that gives its target an entry when it has none
BonusAnyTarget(acc, applies, name, reason) ==
    IF applies
    THEN [acc EXCEPT
            !.scores = [n \in DOMAIN acc.scores \cup {name} |->
                           IF n = name THEN (IF n \in DOMAIN acc.scores THEN acc.scores[n] ELSE 0) + 1
                           ELSE acc.scores[n]],
            !.matches = [n \in DOMAIN acc.matches \cup {name} |->
                           IF n = name
                           THEN Append(IF n \in DOMAIN acc.matches THEN acc.matches[n] ELSE <<>>,
                                       TraceEntry("Heuristic", reason, 1))
                           ELSE acc.matches[n]]]
    ELSE acc

\* one bonus rule: a point and a trace entry for a category that has a score
Bonus(acc, applies, name, reason) ==
    IF applies /\ name \in DOMAIN acc.scores
    THEN [acc EXCEPT !.scores[name] = @ + 1,
                     !.matches[name] = Append(@, TraceEntry("Heuristic", reason, 1))]
    ELSE acc

\* the scores of the triggers left as they are
NoAdjustments(record, acc) == acc

apply_insight_adjustments(record, acc) ==
    Bonus(Bonus(Bonus(Bonus(Bonus(acc,
        record.insights.Festivals # {}, "Interview_Transcripts", "Festival context bonus"),
        record.insights.Festivals # {}, "Strategy_Documents", "Festival context bonus"),
        "production_meta" \in record.insights.ContextFlags,
            "Production_Documents", "Production meta context"),
        "subject_research" \in record.insights.ContextFlags,
            "Data_Reports", "Subject research context"),
        "technical_interview" \in record.insights.ContextFlags,
            "Interview_Transcripts", "Technical interview context")

\* scores.get(name, 0)
ScoreOf(scores, name) == IF name \in DOMAIN scores THEN scores[name] ELSE 0

\* the loop that replaces the best on a score that is greater or equal
RECURSIVE ChooseLastBest(_, _, _)
ChooseLastBest(scores, names, best) ==
    IF names = <<>> THEN best
    ELSE IF ScoreOf(scores, Head(names)) >= best.score
    THEN ChooseLastBest(scores, Tail(names),
                        [category |-> Head(names), score |-> ScoreOf(scores, Head(names))])
    ELSE ChooseLastBest(scores, Tail(names), best)

\* the loop of choose_best_category over the rest of the priority list
RECURSIVE ChooseFrom(_, _, _)
ChooseFrom(scores, names, best) ==
    IF names = <<>> THEN best
    ELSE IF ScoreOf(scores, Head(names)) > best.score
    THEN ChooseFrom(scores, Tail(names),
                    [category |-> Head(names), score |-> ScoreOf(scores, Head(names))])
    ELSE ChooseFrom(scores, Tail(names), best)

choose_best_category(scores, names) ==
    ChooseFrom(scores, names, [category |-> "Unknown", score |-> -1])

\* the test `best_score < 0` in place of `best_score <= 0`
ForceUnknownBelowZero(best) ==
    IF best.score < 0 THEN [category |-> "Unknown", score |-> 0] ELSE best

\* lines 297-299
ForceUnknown(best) ==
    IF best.score <= 0 THEN [category |-> "Unknown", score |-> 0] ELSE best

\* the filter `v >= 0` in place of `v > 0`
NonNegative(scores) == [name \in {n \in DOMAIN scores : scores[n] >= 0} |-> scores[name]]

\* {k: v for k, v in d.items() if <v is kept>}
Positive(scores) == [name \in {n \in DOMAIN scores : scores[n] > 0} |-> scores[name]]

NonEmptyTraces(traces) ==
    [name \in {n \in DOMAIN traces : traces[n] # <<>>} |-> traces[name]]

\* the maps of the record updated in place: what an earlier classification
\* stored is added to
WonAccumulating(record, acc, best) ==
    [record EXCEPT !.category_scores =
                       [name \in DOMAIN Positive(acc.scores) \cup DOMAIN record.category_scores |->
                           ScoreOf(Positive(acc.scores), name)
                           + ScoreOf(record.category_scores, name)],
                   !.matched_triggers = NonEmptyTraces(acc.matches),
                   !.winning_category = best.category,
                   !.winning_score = best.score]

\* lines 300-303: the fields written on success
Won(record, acc, best) ==
    [record EXCEPT !.category_scores = Positive(acc.scores),
                   !.matched_triggers = NonEmptyTraces(acc.matches),
                   !.winning_category = best.category,
                   !.winning_score = best.score]

\* lines 307-308: the fields written by the except clause
Failed(record) ==
    [record EXCEPT !.winning_category = "Unknown", !.winning_score = 0]

Scored(record, acc) ==
    [raised |-> FALSE,
     record |-> Won(record, acc, ForceUnknown(choose_best_category(acc.scores, priority))),
     scores |-> acc.scores]

Adjusted(record, acc) ==
    IF acc.raised THEN [raised |-> TRUE, record |-> Failed(record), scores |-> <<>>]
    ELSE Scored(record, apply_insight_adjustments(record, acc))

WithInsights(record) ==
    Adjusted(record,
             ScoreCategories(priority, configs, record,
                             [scores  |-> [name \in SeqToSet(priority) |-> 0],
                              matches |-> [name \in SeqToSet(priority) |-> <<>>],
                              raised  |-> FALSE]))

\* the body of the loop of classify for one record: [raised, record, scores]
ClassifyOne(record) == WithInsights(prepare_insights(record))

\* every name not yet seen is kept, configured or not
RECURSIVE SeenFromAnyName(_, _, _)
SeenFromAnyName(names, allowed, seen) ==
    IF names = <<>> THEN seen
    ELSE IF Head(names) \notin SeqToSet(seen)
    THEN SeenFromAnyName(Tail(names), allowed, Append(seen, Head(names)))
    ELSE SeenFromAnyName(Tail(names), allowed, seen)

\* Classifier.__init__: the names of `wanted` that are configured, once each,
\* then the configured names not yet seen, in declaration order
RECURSIVE SeenFrom(_, _, _)
SeenFrom(names, allowed, seen) ==
    IF names = <<>> THEN seen
    ELSE IF Head(names) \in allowed /\ Head(names) \notin SeqToSet(seen)
    THEN SeenFrom(Tail(names), allowed, Append(seen, Head(names)))
    ELSE SeenFrom(Tail(names), allowed, seen)

CategoryNames(categories) == [k \in 1..Len(categories) |-> categories[k].name]

ClassifierConfigs(categories) ==
    [name \in SeqToSet(CategoryNames(categories)) |->
        categories[CHOOSE k \in 1..Len(categories) :
                      /\ categories[k].name = name
                      /\ \A j \in (k + 1)..Len(categories) : categories[j].name # name].triggers]

ClassifierPriority(categories, wanted) ==
    SeenFrom(CategoryNames(categories), SeqToSet(CategoryNames(categories)),
             SeenFrom(wanted, SeqToSet(CategoryNames(categories)), <<>>))

\* errors = 1 in place of errors += 1
CountErrorOnce(count, raised) == IF raised THEN 1 ELSE count

\* line 306
CountError(count, raised) == IF raised THEN count + 1 ELSE count

\* the effect of one iteration on the buckets, the counter and the batch
\* a record whose processing raised is counted and put in no bucket
ProcessedLosingRaised(outcome) ==
    /\ records' = Append(records, outcome.record)
    /\ buckets' = IF outcome.raised THEN buckets
                  ELSE [buckets EXCEPT ![outcome.record.winning_category] =
                                           Append(@, Len(records) + 1)]
    /\ errors' = CountError(errors, outcome.raised)
    /\ last_scores' = outcome.scores
    /\ raised_at' = IF outcome.raised THEN raised_at \cup {Len(records) + 1} ELSE raised_at

Processed(outcome) ==
    /\ records' = Append(records, outcome.record)
    /\ buckets' = [buckets EXCEPT ![outcome.record.winning_category] =
                                      Append(@, Len(records) + 1)]
    /\ errors' = CountError(errors, outcome.raised)
    /\ last_scores' = outcome.scores
    /\ raised_at' = IF outcome.raised THEN raised_at \cup {Len(records) + 1} ELSE raised_at

\* one iteration of `for record in records`
ClassifyRecord(raw) ==
    /\ cphase = "classify"
    /\ Len(records) < MaxRecords
    /\ Processed(ClassifyOne(FileRecord(raw)))
    /\ UNCHANGED <<cphase, configs, priority, first_run>>
    /\ UNCHANGED otherThanClassify

\* `return buckets, errors`
ReturnBuckets ==
    /\ cphase = "classify"
    /\ cphase' = "returned"
    /\ UNCHANGED <<configs, priority, records, buckets, errors, last_scores, raised_at,
                   first_run>>
    /\ UNCHANGED otherThanClassify

\* a second call of classify on the same list of record objects, with the same
\* classifier: lines 280-282 start from empty buckets and a counter of zero
ClassifyAgain ==
    /\ cphase = "returned"
    /\ records # <<>>
    /\ cphase' = "again"
    /\ first_run' = records
    /\ records' = <<>>
    /\ buckets' = [name \in SeqToSet(priority) \cup {"Unknown"} |-> <<>>]
    /\ errors' = 0
    /\ last_scores' = <<>>
    /\ raised_at' = {}
    /\ UNCHANGED <<configs, priority>>
    /\ UNCHANGED otherThanClassify

\* one iteration of the second call: the record object carries the fields the
\* first call wrote
ReclassifyRecord ==
    /\ cphase = "again"
    /\ Len(records) < Len(first_run)
    /\ Processed(ClassifyOne(first_run[Len(records) + 1]))
    /\ UNCHANGED <<cphase, configs, priority, first_run>>
    /\ UNCHANGED otherThanClassify

\* `return buckets, errors` of the second call
ReturnAgain ==
    /\ cphase = "again"
    /\ Len(records) = Len(first_run)
    /\ cphase' = "returned_again"
    /\ UNCHANGED <<configs, priority, records, buckets, errors, last_scores, raised_at,
                   first_run>>
    /\ UNCHANGED otherThanClassify

----------------------------------------------------------------------------
(* load_config and Trigger.from_dict *)

\* a payload of the Triggers list: Type is a text, Score an integer, null or
\* absent, Target and Pattern a text, null or absent, Values a list or absent
TextVal(text) == [t |-> "str", v |-> text]
NullText == [t |-> "null", v |-> <<>>]
AbsentText == [t |-> "absent", v |-> <<>>]
AbsentList == [t |-> "absent", v |-> <<>>]

RegexType == <<"r", "e", "g", "e", "x">>
KeywordType == <<"k", "e", "y", "w", "o", "r", "d">>
ExtensionType == <<"e", "x", "t", "e", "n", "s", "i", "o", "n">>
FileNameTarget == <<"F", "i", "l", "e", "N", "a", "m", "e">>

\* re.compile on a text of literal characters and groups: the depth of the
\* groups after the text, -1 once a group is closed that was never opened
RECURSIVE GroupDepth(_, _)
GroupDepth(text, depth) ==
    IF depth < 0 \/ text = <<>> THEN depth
    ELSE IF Head(text) = "(" THEN GroupDepth(Tail(text), depth + 1)
    ELSE IF Head(text) = ")" THEN GroupDepth(Tail(text), depth - 1)
    ELSE GroupDepth(Tail(text), depth)

\* re.compile raises re.error on a group that is not balanced
Compiles(text) == GroupDepth(text, 0) = 0

IsLiteral(char) == char \notin {"(", ")"}

\* the atoms searched for: the literal characters, a group matches what its
\* content matches
Compile(text) == SelectSeq(text, IsLiteral)

\* the outcome of a construction: the exception raised, or "" and the trigger
Built(trigger) == [raises |-> "", trigger |-> trigger]
Raised(exception) ==
    [raises |-> exception, trigger |-> KeywordTrigger(IntVal(0), <<>>)]

\* int(payload.get("Score", 0)) for a Score that is an integer or absent
IntScore(payload) == IF payload.Score.t = "int" THEN payload.Score.v ELSE 0

\* str(payload.get("Target", "FileName"))
TargetOf(payload) ==
    IF payload.Target.t = "str" THEN payload.Target.v
    ELSE IF payload.Target.t = "null" THEN <<"N", "o", "n", "e">>
    ELSE FileNameTarget

\* payload.get("Values", [])
ValuesOf(payload) == IF payload.Values.t = "list" THEN payload.Values.v ELSE <<>>

\* [str(v).lower() for v in values]
LoweredValues(values) == [k \in 1..Len(values) |-> Lower(values[k])]

\* lower-cased, with a leading dot put in front where there is none
DottedValues(values) ==
    [k \in 1..Len(values) |->
        IF StartsWith(Lower(values[k]), <<".">>) THEN Lower(values[k])
        ELSE <<".">> \o Lower(values[k])]

\* lines 77-82
RegexFromDict(payload) ==
    IF payload.Pattern.t # "str" \/ payload.Pattern.v = <<>> THEN Raised("ValueError")
    ELSE IF ~Compiles(payload.Pattern.v) THEN Raised("re.error")
    ELSE Built(RegexTrigger(IntVal(IntScore(payload)), TargetOf(payload),
                            Compile(payload.Pattern.v)))

\* lines 83-87
KeywordFromDict(payload) ==
    IF ValuesOf(payload) = <<>> THEN Raised("ValueError")
    ELSE Built(KeywordTrigger(IntVal(IntScore(payload)), LoweredValues(ValuesOf(payload))))

\* lines 88-99
ExtensionFromDict(payload) ==
    IF ValuesOf(payload) = <<>> THEN Raised("ValueError")
    ELSE Built(ExtensionTrigger(IntVal(IntScore(payload)), DottedValues(ValuesOf(payload))))

\* lines 77-100: the construction by trigger type
FromDictByType(payload, trigger_type) ==
    IF trigger_type = RegexType THEN RegexFromDict(payload)
    ELSE IF trigger_type = KeywordType THEN KeywordFromDict(payload)
    ELSE IF trigger_type = ExtensionType THEN ExtensionFromDict(payload)
    ELSE Raised("ValueError")

\* Trigger.from_dict: int(None) raises TypeError
from_dict(payload) ==
    IF payload.Score.t = "null" THEN Raised("TypeError")
    ELSE IF IntScore(payload) <= 0 THEN Raised("ValueError")
    ELSE FromDictByType(payload, Lower(Strip(payload.Type)))

\* list(dict.fromkeys(names))
RECURSIVE Deduplicated(_, _)
Deduplicated(names, seen) ==
    IF names = <<>> THEN seen
    ELSE IF Head(names) \in SeqToSet(seen) THEN Deduplicated(Tail(names), seen)
    ELSE Deduplicated(Tail(names), Append(seen, Head(names)))

\* the keys of the Categories section, in the order of the file
CategoryKeys == <<"Interview_Transcripts", "Strategy_Documents", "Data_Reports">>

\* the number of payloads in the lists read so far
RECURSIVE CountPayloads(_)
CountPayloads(lists) ==
    IF lists = <<>> THEN 0 ELSE Len(Head(lists)) + CountPayloads(Tail(lists))

PayloadsRead == CountPayloads(payloads)

\* the payload read is added to the list of the category being read
Read(payload) ==
    IF Len(payloads) = Len(loaded_categories)
    THEN Append(payloads, <<payload>>)
    ELSE [payloads EXCEPT ![Len(payloads)] = Append(@, payload)]

\* lines 365-368 for an outcome of from_dict: the trigger is appended, a
\* ValueError is caught and the payload skipped, any other exception leaves
\* load_config
Loaded(outcome) ==
    /\ loaded_triggers' = IF outcome.raises = "" THEN Append(loaded_triggers, outcome.trigger)
                          ELSE loaded_triggers
    /\ lphase' = IF outcome.raises \in {"", "ValueError"} THEN "loading" ELSE "aborted"

\* one iteration of `for trigger_payload in body.get("Triggers", []) or []`
LoadTrigger(payload) ==
    /\ lphase = "loading"
    /\ Len(loaded_categories) < Len(CategoryKeys)
    /\ PayloadsRead < MaxTriggers
    /\ Loaded(from_dict(payload))
    /\ payloads' = Read(payload)
    /\ UNCHANGED <<explicit_priority, loaded_categories, load_priority>>
    /\ UNCHANGED otherThanLoad

\* lines 369-372: the Triggers list of the category is exhausted
CloseCategory ==
    /\ lphase = "loading"
    /\ Len(loaded_categories) < Len(CategoryKeys)
    /\ loaded_categories' = Append(loaded_categories,
                            [name |-> CategoryKeys[Len(loaded_categories) + 1], triggers |-> loaded_triggers])
    /\ loaded_triggers' = <<>>
    /\ payloads' = IF Len(payloads) = Len(loaded_categories) THEN Append(payloads, <<>>) ELSE payloads
    /\ UNCHANGED <<lphase, explicit_priority, load_priority>>
    /\ UNCHANGED otherThanLoad

\* lines 373-374: the Categories section is exhausted
ReturnConfig ==
    /\ lphase = "loading"
    /\ loaded_categories # <<>>
    /\ Len(payloads) = Len(loaded_categories)
    /\ load_priority' = Deduplicated(Deduplicated(explicit_priority, <<>>)
                                         \o CategoryNames(loaded_categories), <<>>)
    /\ lphase' = "loaded"
    /\ UNCHANGED <<explicit_priority, payloads, loaded_categories, loaded_triggers>>
    /\ UNCHANGED otherThanLoad

\* Classifier(loaded_categories, priority), and the buckets classify starts from
ConstructClassifier ==
    /\ lphase = "loaded"
    /\ lphase' = "constructed"
    /\ configs' = ClassifierConfigs(loaded_categories)
    /\ priority' = ClassifierPriority(loaded_categories, load_priority)
    /\ buckets' = [name \in SeqToSet(ClassifierPriority(loaded_categories, load_priority))
                              \cup {"Unknown"} |-> <<>>]
    /\ cphase' = "classify"
    /\ UNCHANGED <<records, errors, last_scores, raised_at, first_run>>
    /\ UNCHANGED <<explicit_priority, payloads, loaded_categories, loaded_triggers, load_priority>>
    /\ UNCHANGED <<namingVars, placeholderVars, callVars>>

----------------------------------------------------------------------------
(* Inputs of the naming run *)

KeywordList(values) == [t |-> "list", v |-> values]
NullKeywords == [t |-> "null", v |-> <<>>]
Pair(key, value) == [key |-> key, value |-> value]
Condition(key, expected) == [key |-> key, expected |-> expected]

KeywordsKey == <<"K", "e", "y", "w", "o", "r", "d", "s">>

\* Web_Content names its files P.h, or P_v2.h for a "v2" keyword;
\* Unknown is the rule set of the rank test; Archive has no Pattern
NamingRulesInput ==
    [c \in {"Web_Content", "Unknown", "Archive"} |->
        IF c = "Web_Content"
        THEN [Pattern |-> <<"{", "N", "}", ".", "h">>,
              Rules |-> << [Condition |-> << Condition(KeywordsKey, << <<"v", "2">> >>) >>,
                            Mapping |-> << Pair(<<"N">>, <<"P", "_", "v", "2">>) >>] >>,
              DefaultMapping |-> << Pair(<<"N">>, <<"P">>) >>]
        ELSE IF c = "Unknown"
        THEN [Pattern |-> <<"P", ".", "{", "e", "x", "t", "}">>,
              Rules |-> <<>>, DefaultMapping |-> <<>>]
        ELSE [Pattern |-> <<>>, Rules |-> <<>>, DefaultMapping |-> <<>>]]

GlobalSettingsInputs ==
    [DateFormat : {AbsentVal},
     HandleDuplicates : {"<absent>", "AppendRank", "Skip"},
     PreservePaths : {"<absent>"}]

Clock == {DateTime(2026, 11, 3, 0, 0, 0)}

\* no other function is being called on its own
CallIdle ==
    /\ callee = ""
    /\ call_args = <<>>
    /\ call_returned = FALSE
    /\ call_result = <<>>

\* replace_placeholders is not being called on its own
PlaceholdersIdle ==
    /\ pphase = "idle"
    /\ given_pattern = <<>>
    /\ given_mapping = <<>>
    /\ substituted = <<>>

\* no config is being loaded
LoadIdle ==
    /\ lphase = "idle"
    /\ explicit_priority = <<>>
    /\ payloads = <<>>
    /\ loaded_categories = <<>>
    /\ loaded_triggers = <<>>
    /\ load_priority = <<>>

\* no classification is running
ClassifyIdle ==
    /\ cphase = "idle"
    /\ configs = <<>>
    /\ priority = <<>>
    /\ records = <<>>
    /\ buckets = <<>>
    /\ errors = 0
    /\ last_scores = <<>>
    /\ raised_at = {}
    /\ first_run = <<>>

InitNaming ==
    /\ CallIdle
    /\ ClassifyIdle
    /\ LoadIdle
    /\ PlaceholdersIdle
    /\ phase = "naming"
    /\ \E raw \in GlobalSettingsInputs : settings = ensure_global_settings(raw)
    /\ config = NamingRulesInput
    /\ curCategory = ""
    /\ seenCats = {}
    /\ rename_mappings = <<>>
    /\ summary = [TotalFiles |-> 0, FilesRenamed |-> 0, Conflicts |-> 0, Errors |-> 0]
    /\ candidates = <<>>
    /\ consumed = 0
    /\ failed = 0

\* the n-th file entry of the input: x<n><suffix> in directory /a
FileEntry(n, suffix, extension, keywords, rank, score) ==
    [FileName  |-> <<"x">> \o IntStr(n) \o suffix,
     FullPath  |-> <<"/", "a", "/", "x">> \o IntStr(n) \o suffix,
     Directory |-> <<>>,
     Extension |-> extension,
     Keywords  |-> keywords,
     Rank      |-> rank,
     Score     |-> score,
     Modified  |-> <<>>]

\* Conflict scenarios: files of one directory that differ in score, rank and
\* in the keyword that selects the name
ConflictFiles(n) ==
    {FileEntry(n, <<".", "h">>, <<".", "h">>, keywords, rank, score) :
        keywords \in {KeywordList(<<>>), KeywordList(<<<<"v", "2">>>>)},
        rank \in {AbsentVal, IntVal(1)},
        score \in {AbsentVal, IntVal(1)}}

\* the same files as the classifier exports them when the inventory has no score
NullScoreFiles(n) ==
    {FileEntry(n, <<".", "h">>, <<".", "h">>, keywords, IntVal(1), score) :
        keywords \in {KeywordList(<<>>), KeywordList(<<<<"v", "2">>>>)},
        score \in {NullVal, IntVal(1)}}

\* files whose Extension field is written with a dot, without one, in upper
\* case, or is empty
ExtensionFiles(n) ==
    {FileEntry(n, <<".", "h">>, extension, KeywordList(<<>>), IntVal(1), IntVal(1)) :
        extension \in {<<".", "h">>, <<"h">>, <<".", "H">>}}
    \cup {FileEntry(n, <<>>, <<>>, KeywordList(<<>>), IntVal(1), IntVal(1))}

\* files of which some have a null Keywords field, which build_context
\* cannot iterate
RaisingFiles(n) ==
    {FileEntry(n, <<".", "h">>, <<".", "h">>, keywords, IntVal(1), IntVal(1)) :
        keywords \in {KeywordList(<<>>), KeywordList(<<<<"v", "2">>>>), NullKeywords}}

OtherCategories ==
    \/ \E c \in {"Misc"} : EmptyCategory(c)
    \/ \E c \in {"Misc", "Archive"}, n \in 1..MaxFiles : SkipCategory(c, n)

NextNaming ==
    \/ OtherCategories
    \/ \E f \in ConflictFiles(consumed + 1), now \in Clock : NameFile("Web_Content", f, now)
    \/ ResolveConflicts

NextNullScore ==
    \/ \E f \in NullScoreFiles(consumed + 1), now \in Clock : NameFile("Web_Content", f, now)
    \/ ResolveConflicts

NextExt ==
    \/ \E f \in ExtensionFiles(consumed + 1), now \in Clock : NameFile("Unknown", f, now)
    \/ ResolveConflicts

NextRaising ==
    \/ OtherCategories
    \/ \E f \in RaisingFiles(consumed + 1), now \in Clock : NameFile("Web_Content", f, now)
    \/ ResolveConflicts

SpecNaming == InitNaming /\ [][NextNaming]_vars

SpecRaising == InitNaming /\ [][NextRaising]_vars

SpecNullScore == InitNaming /\ [][NextNullScore]_vars

SpecExt == InitNaming /\ [][NextExt]_vars

ExtensionKey == <<"E", "x", "t", "e", "n", "s", "i", "o", "n">>
NameAndExt == <<"{", "N", "}", "{", "e", "x", "t", "}">>

\* Web_Content has three rules, of which the first asks for the keyword and
\* the extension, the second for the keyword and the third for the extension,
\* and a DefaultMapping; Unknown has one rule and no DefaultMapping
RulesInput ==
    [c \in {"Web_Content", "Unknown"} |->
        IF c = "Web_Content"
        THEN [Pattern |-> NameAndExt,
              Rules |-> << [Condition |-> << Condition(KeywordsKey, << <<"v", "2">> >>),
                                             Condition(ExtensionKey, << <<"h">> >>) >>,
                            Mapping |-> << Pair(<<"N">>, <<"A">>) >>],
                           [Condition |-> << Condition(KeywordsKey, << <<"v", "2">> >>) >>,
                            Mapping |-> << Pair(<<"N">>, <<"B">>) >>],
                           [Condition |-> << Condition(ExtensionKey, << <<"h">> >>) >>,
                            Mapping |-> << Pair(<<"N">>, <<"C">>) >>] >>,
              DefaultMapping |-> << Pair(<<"N">>, <<"D">>) >>]
        ELSE [Pattern |-> NameAndExt,
              Rules |-> << [Condition |-> << Condition(KeywordsKey, << <<"v", "2">> >>) >>,
                            Mapping |-> << Pair(<<"N">>, <<"A">>) >>] >>,
              DefaultMapping |-> <<>>]]

InitRules ==
    /\ CallIdle
    /\ ClassifyIdle
    /\ LoadIdle
    /\ PlaceholdersIdle
    /\ phase = "naming"
    /\ \E raw \in GlobalSettingsInputs : settings = ensure_global_settings(raw)
    /\ config = RulesInput
    /\ curCategory = ""
    /\ seenCats = {}
    /\ rename_mappings = <<>>
    /\ summary = [TotalFiles |-> 0, FilesRenamed |-> 0, Conflicts |-> 0, Errors |-> 0]
    /\ candidates = <<>>
    /\ consumed = 0
    /\ failed = 0

\* files with and without the keyword, of two extensions, each with its
\* number as its rank
RuleFiles(n) ==
    {FileEntry(n, extension, extension, keywords, IntVal(n), AbsentVal) :
        keywords \in {KeywordList(<<>>), KeywordList(<<<<"v", "2">>>>)},
        extension \in {<<".", "h">>, <<".", "c">>}}

NextRules ==
    \/ \E f \in RuleFiles(consumed + 1), c \in {"Web_Content", "Unknown"}, now \in Clock :
          NameFile(c, f, now)
    \/ ResolveConflicts

SpecRules == InitRules /\ [][NextRules]_vars

----------------------------------------------------------------------------
(* Inputs of a naming run whose mappings supply Date, ext and Rank *)

\* Dated names its files by date and extension, Ranked by name and rank,
\* Plain by name alone; the rule for the keyword "v2" supplies some of the
\* values the run would fill in, the DefaultMapping none of them
PopulateInput ==
    [c \in {"Dated", "Ranked", "Plain"} |->
        IF c = "Dated"
        THEN [Pattern |-> <<"{", "D", "a", "t", "e", "}", "{", "e", "x", "t", "}">>,
              Rules |-> << [Condition |-> << Condition(KeywordsKey, << <<"v", "2">> >>) >>,
                            Mapping |-> << Pair(DateKey, <<"D">>), Pair(ExtKey, <<".", "x">>) >>] >>,
              DefaultMapping |-> <<>>]
        ELSE IF c = "Ranked"
        THEN [Pattern |-> <<"{", "N", "}", "{", "R", "a", "n", "k", "}">>,
              Rules |-> << [Condition |-> << Condition(KeywordsKey, << <<"v", "2">> >>) >>,
                            Mapping |-> << Pair(<<"N">>, <<"A">>), Pair(RankKey, <<"R">>) >>] >>,
              DefaultMapping |-> << Pair(<<"N">>, <<"B">>) >>]
        ELSE [Pattern |-> <<"{", "N", "}">>,
              Rules |-> << [Condition |-> << Condition(KeywordsKey, << <<"v", "2">> >>) >>,
                            Mapping |-> << Pair(<<"N">>, <<"A">>), Pair(ExtKey, <<".", "x">>) >>] >>,
              DefaultMapping |-> << Pair(<<"N">>, <<"B">>) >>]]

InitPopulate ==
    /\ CallIdle
    /\ ClassifyIdle
    /\ LoadIdle
    /\ PlaceholdersIdle
    /\ phase = "naming"
    /\ \E raw \in GlobalSettingsInputs : settings = ensure_global_settings(raw)
    /\ config = PopulateInput
    /\ curCategory = ""
    /\ seenCats = {}
    /\ rename_mappings = <<>>
    /\ summary = [TotalFiles |-> 0, FilesRenamed |-> 0, Conflicts |-> 0, Errors |-> 0]
    /\ candidates = <<>>
    /\ consumed = 0
    /\ failed = 0

\* files with and without the keyword, each with its number as its rank
PopulateFiles(n) ==
    {FileEntry(n, <<".", "h">>, <<".", "h">>, keywords, IntVal(n), AbsentVal) :
        keywords \in {KeywordList(<<>>), KeywordList(<<<<"v", "2">>>>)}}

NextPopulate ==
    \/ \E f \in PopulateFiles(consumed + 1), c \in {"Dated", "Ranked", "Plain"}, now \in Clock :
          NameFile(c, f, now)
    \/ ResolveConflicts

SpecPopulate == InitPopulate /\ [][NextPopulate]_vars

----------------------------------------------------------------------------
(* Inputs of the classification run *)

\* no naming run is going on
NamingIdle ==
    /\ phase = "idle"
    /\ settings = <<>>
    /\ config = <<>>
    /\ curCategory = ""
    /\ seenCats = {}
    /\ rename_mappings = <<>>
    /\ summary = [TotalFiles |-> 0, FilesRenamed |-> 0, Conflicts |-> 0, Errors |-> 0]
    /\ candidates = <<>>
    /\ consumed = 0
    /\ failed = 0

\* a score that is no number, as a Trigger built without from_dict can carry
TextScore == [t |-> "str", v |-> 0]

\* three categories in declaration order; the last trigger of Data_Reports
\* raises when it matches
CategoriesInput ==
    << [name |-> "Interview_Transcripts",
        triggers |-> << KeywordTrigger(IntVal(2), << <<"i", "n", "t", "e", "r", "v", "i", "e", "w">> >>) >>],
       [name |-> "Strategy_Documents",
        triggers |-> << RegexTrigger(IntVal(2), <<"F", "i", "l", "e", "N", "a", "m", "e">>,
                                     <<"p", "l", "a", "n">>) >>],
       [name |-> "Data_Reports",
        triggers |-> << ExtensionTrigger(IntVal(1), << <<".", "c", "s", "v">> >>),
                        KeywordTrigger(TextScore, << <<"d", "r", "a", "f", "t">> >>) >>] >>

\* the priority list as given: empty, or naming a category twice and a
\* category that is not configured
PriorityInputs ==
    { <<>>, <<"Strategy_Documents", "Ghost", "Strategy_Documents">> }

InitClassify ==
    /\ CallIdle
    /\ NamingIdle
    /\ LoadIdle
    /\ PlaceholdersIdle
    /\ cphase = "classify"
    /\ configs = ClassifierConfigs(CategoriesInput)
    /\ \E wanted \in PriorityInputs : priority = ClassifierPriority(CategoriesInput, wanted)
    /\ records = <<>>
    /\ buckets = [name \in SeqToSet(priority) \cup {"Unknown"} |-> <<>>]
    /\ errors = 0
    /\ last_scores = <<>>
    /\ raised_at = {}
    /\ first_run = <<>>

RawRecord(stem, suffix, keywords) ==
    [FileName  |-> stem \o suffix,
     FullPath  |-> <<"/", "a", "/">> \o stem \o suffix,
     Directory |-> <<"/", "a">>,
     Keywords  |-> keywords,
     Extension |-> suffix]

Plan == <<"p", "l", "a", "n">>
Notes == <<"n", "o", "t", "e", "s">>
Sundance == <<"s", "u", "n", "d", "a", "n", "c", "e">>
Csv == <<".", "c", "s", "v">>
Txt == <<".", "t", "x", "t">>
InterviewKeyword == <<"I", "n", "t", "e", "r", "v", "i", "e", "w">>
AudioKeyword == <<"a", "u", "d", "i", "o">>
DraftKeyword == <<"d", "r", "a", "f", "t">>

\* a plan kept as a table, notes and a festival file; without keyword, or with
\* an interview, an audio or a draft keyword
RawRecords ==
    { RawRecord(Plan, Csv, <<>>),
      RawRecord(Plan, Csv, <<InterviewKeyword>>),
      RawRecord(Plan, Csv, <<DraftKeyword>>),
      RawRecord(Notes, Txt, <<>>),
      RawRecord(Notes, Txt, <<AudioKeyword>>),
      RawRecord(Notes, Txt, <<DraftKeyword>>),
      RawRecord(Sundance, Txt, <<>>),
      RawRecord(Sundance, Txt, <<InterviewKeyword>>) }

NextClassify ==
    \/ \E raw \in RawRecords : ClassifyRecord(raw)
    \/ ReturnBuckets

SpecClassify == InitClassify /\ [][NextClassify]_vars

Research == <<"r", "e", "s", "e", "a", "r", "c", "h">>
Production == <<"p", "r", "o", "d", "u", "c", "t", "i", "o", "n">>

\* records whose text sets the context flags: research kept as a table, a
\* production file with and without keywords, a festival file, and notes
BonusRecords ==
    { RawRecord(Research, Csv, <<>>),
      RawRecord(Production, Txt, <<InterviewKeyword, AudioKeyword>>),
      RawRecord(Production, Txt, <<>>),
      RawRecord(Sundance, Txt, <<InterviewKeyword, AudioKeyword>>),
      RawRecord(Sundance, Txt, <<>>),
      RawRecord(Notes, Txt, <<AudioKeyword>>) }

NextBonus ==
    \/ \E raw \in BonusRecords : ClassifyRecord(raw)
    \/ ReturnBuckets

SpecBonus == InitClassify /\ [][NextBonus]_vars

\* a payload of the Triggers list of the config file
Payload(type, score, pattern, values) ==
    [Type |-> type, Score |-> score, Target |-> AbsentText, Pattern |-> pattern,
     Values |-> values]

\* three well-formed payloads, and one payload for each way a construction
\* fails: Score 0, absent and null, a Regex without Pattern and with a group
\* left open, a Keyword without Values, an Extension with an empty list, and
\* a type that is not supported
LoadPayloads ==
    { Payload(<<" ", "R", "e", "g", "e", "x">>, IntVal(2), TextVal(<<"(", "p", "l", ")", "a", "n">>),
              AbsentList),
      Payload(KeywordType, IntVal(1), AbsentText, KeywordList(<<InterviewKeyword>>)),
      Payload(<<"E", "x", "t", "e", "n", "s", "i", "o", "n">>, IntVal(1), AbsentText,
              KeywordList(<< <<"c", "s", "v">> >>)),
      Payload(KeywordType, IntVal(0), AbsentText, KeywordList(<<InterviewKeyword>>)),
      Payload(KeywordType, AbsentVal, AbsentText, KeywordList(<<InterviewKeyword>>)),
      Payload(KeywordType, NullVal, AbsentText, KeywordList(<<InterviewKeyword>>)),
      Payload(RegexType, IntVal(1), AbsentText, AbsentList),
      Payload(RegexType, IntVal(1), TextVal(<<"(", "p", "l", "a", "n">>), AbsentList),
      Payload(KeywordType, IntVal(1), AbsentText, AbsentList),
      Payload(ExtensionType, IntVal(1), AbsentText, KeywordList(<<>>)),
      Payload(<<"v", "i", "d", "e", "o">>, IntVal(1), AbsentText, AbsentList) }

InitLoad ==
    /\ CallIdle
    /\ NamingIdle
    /\ ClassifyIdle
    /\ PlaceholdersIdle
    /\ lphase = "loading"
    /\ explicit_priority \in PriorityInputs
    /\ payloads = <<>>
    /\ loaded_categories = <<>>
    /\ loaded_triggers = <<>>
    /\ load_priority = <<>>

NextLoad ==
    \/ \E payload \in LoadPayloads : LoadTrigger(payload)
    \/ CloseCategory
    \/ ReturnConfig
    \/ ConstructClassifier

SpecLoad == InitLoad /\ [][NextLoad]_vars

\* the batch classified, and the same record objects classified once more
NextReclassify ==
    \/ NextClassify
    \/ ClassifyAgain
    \/ ReclassifyRecord
    \/ ReturnAgain

SpecReclassify == InitClassify /\ [][NextReclassify]_vars

----------------------------------------------------------------------------
(* Inputs of a call of replace_placeholders *)

\* the characters of the patterns: the two braces, a key and another letter
PatternChars == {"{", "}", "N", "a"}

\* every text of at most MaxPattern of these characters
PatternInputs == UNION {[1..n -> PatternChars] : n \in 0..MaxPattern}

\* no key, the key N with a text, and the key N with the empty text
MappingInputs == { <<>>, <<Pair(<<"N">>, <<"a">>)>>, <<Pair(<<"N">>, <<>>)>> }

InitPlaceholders ==
    /\ CallIdle
    /\ NamingIdle
    /\ ClassifyIdle
    /\ LoadIdle
    /\ pphase = "given"
    /\ given_pattern \in PatternInputs
    /\ given_mapping \in MappingInputs
    /\ substituted = <<>>

\* new_file_name = replace_placeholders(pattern, mapping)
Substitute ==
    /\ pphase = "given"
    /\ substituted' = replace_placeholders(given_pattern, given_mapping)
    /\ pphase' = "substituted"
    /\ UNCHANGED <<given_pattern, given_mapping>>
    /\ UNCHANGED otherThanPlaceholders

NextPlaceholders == Substitute

SpecPlaceholders == InitPlaceholders /\ [][NextPlaceholders]_vars

----------------------------------------------------------------------------
(* Inputs of a call of derive_date *)

\* file names: one token of each form, a token with two different
\* separators, tokens that are no calendar date (month 13, 30 February,
\* year 0), a token that is no date followed by one that is, a digit before
\* a token, and a name without digits
DateNames ==
    { <<"2", "0", "2", "6", "0", "1", "0", "2">>,
      <<"2", "0", "2", "6", "-", "0", "1", "-", "0", "2">>,
      <<"2", "0", "2", "6", "_", "0", "1", "_", "0", "2">>,
      <<"2", "0", "2", "6", "-", "0", "1", "_", "0", "2">>,
      <<"2", "0", "2", "6", "1", "3", "0", "2">>,
      <<"2", "0", "2", "6", "0", "2", "3", "0">>,
      <<"0", "0", "0", "0", "0", "1", "0", "1">>,
      <<"2", "0", "2", "6", "1", "3", "0", "2", "_", "2", "0", "2", "6", "0", "1", "0", "2">>,
      <<"1", "2", "0", "2", "6", "0", "1", "0", "2">>,
      <<"n", "o", "t", "e", "s">> }

\* Modified: absent, a date, a date and a time in both spellings, and a
\* text no format parses
ModifiedValues ==
    { <<>>,
      <<"2", "0", "2", "5", "-", "0", "5", "-", "0", "6">>,
      <<"2", "0", "2", "5", "-", "0", "5", "-", "0", "6", "T", "0", "7", ":", "0", "8", ":", "0", "9">>,
      <<"2", "0", "2", "5", "-", "0", "5", "-", "0", "6", " ", "0", "7", ":", "0", "8", ":", "0", "9">>,
      <<"2", "0", "2", "5", "-", "1", "3", "-", "0", "1">> }

\* datetime.now() at the moment of the call
CallClock == Clock \cup {DateTime(2027, 1, 1, 12, 30, 0)}

InitDeriveDate ==
    /\ NamingIdle
    /\ ClassifyIdle
    /\ LoadIdle
    /\ PlaceholdersIdle
    /\ callee = "derive_date"
    /\ \E file_name \in DateNames, modified_value \in ModifiedValues, now \in CallClock :
          call_args = [file_name |-> file_name, modified_value |-> modified_value,
                       now |-> now]
    /\ call_returned = FALSE
    /\ call_result = <<>>

\* date = derive_date(file_name, modified_value)
DeriveDate ==
    /\ callee = "derive_date"
    /\ ~call_returned
    /\ call_result' = derive_date(call_args.file_name, call_args.modified_value,
                                  call_args.now)
    /\ call_returned' = TRUE
    /\ UNCHANGED <<callee, call_args>>
    /\ UNCHANGED otherThanCall

NextDeriveDate == DeriveDate

SpecDeriveDate == InitDeriveDate /\ [][NextDeriveDate]_vars

----------------------------------------------------------------------------
(* Inputs of a call of evaluate_condition *)

\* one file of directory /a, with and without its Directory field, and with
\* no keyword, one of two keywords, both, and one in upper case
ConditionFiles ==
    {[FileEntry(1, <<".", "h">>, <<".", "h">>, KeywordList(keywords), IntVal(1), IntVal(1))
         EXCEPT !.Directory = directory] :
        keywords \in {<<>>, <<<<"v", "1">>>>, <<<<"v", "2">>>>, <<<<"v", "1">>, <<"v", "2">>>>, <<<<"V", "2">>>>},
        directory \in {<<>>, <<"/", "a">>}}

\* the keys evaluate_condition knows, in two spellings, and the other names
\* the classifier has for the fields of a file
KeywordsKeys == {<<"K", "e", "y", "w", "o", "r", "d", "s">>, <<"K", "E", "Y", "W", "O", "R", "D", "S">>}

FieldKeys == {<<"F", "i", "l", "e", "N", "a", "m", "e">>, <<"n", "a", "m", "e">>, <<"F", "u", "l", "l", "P", "a", "t", "h">>, <<"p", "a", "t", "h">>, <<"D", "i", "r", "e", "c", "t", "o", "r", "y">>, <<"f", "o", "l", "d", "e", "r">>, <<"E", "x", "t", "e", "n", "s", "i", "o", "n">>}

\* a condition value that is one text
SingleExpected == {<<<<"v", "1">>>>, <<<<"v", "2">>>>, <<<<"x">>>>, <<<<"a">>>>, <<<<"h">>>>}

\* a Keywords condition may also list no keyword, or two
ListExpected == SingleExpected \cup {<<>>, <<<<"v", "1">>, <<"v", "2">>>>}

Conditions ==
    {[key |-> key, expected |-> expected] : key \in KeywordsKeys, expected \in ListExpected}
        \cup {[key |-> key, expected |-> expected] :
                   key \in FieldKeys, expected \in SingleExpected}

InitCondition ==
    /\ NamingIdle
    /\ ClassifyIdle
    /\ LoadIdle
    /\ PlaceholdersIdle
    /\ callee = "evaluate_condition"
    /\ \E file_entry \in ConditionFiles, condition \in Conditions :
          call_args = [key |-> condition.key, expected |-> condition.expected,
                       file_entry |-> file_entry]
    /\ call_returned = FALSE
    /\ call_result = <<>>

\* evaluate_condition(key, expected, build_context(file_entry))
EvaluateCondition ==
    /\ callee = "evaluate_condition"
    /\ ~call_returned
    /\ call_result' = evaluate_condition(call_args.key, call_args.expected,
                                         build_context(call_args.file_entry))
    /\ call_returned' = TRUE
    /\ UNCHANGED <<callee, call_args>>
    /\ UNCHANGED otherThanCall

NextCondition == EvaluateCondition

SpecCondition == InitCondition /\ [][NextCondition]_vars

----------------------------------------------------------------------------
(* Inputs of a call of Trigger.matches *)

\* the raw fields of one file, with and without its FullPath, its Directory
\* and a keyword
MatchRaws ==
    {[FileName  |-> <<"x", "1", ".", "h">>,
      FullPath  |-> full_path,
      Directory |-> directory,
      Keywords  |-> keywords,
      Extension |-> <<".", "h">>] :
        full_path \in {<<>>, <<"/", "a", "/", "x", "1", ".", "h">>},
        directory \in {<<>>, <<"/", "a">>, <<"a", "_", "b">>},
        keywords \in {<<>>, <<<<"v", "2">>>>}}

\* [ _-]*, a, a[ _-]*b, \ba and x
MatchPatterns ==
    {<<SeparatorRun>>, <<"a">>, <<"a", SeparatorRun, "b">>, <<WordBoundary, "a">>, <<"x">>}

MatchTargets == {<<"F", "i", "l", "e", "N", "a", "m", "e">>, <<"n", "a", "m", "e">>, <<"F", "u", "l", "l", "P", "a", "t", "h">>, <<"D", "i", "r", "e", "c", "t", "o", "r", "y">>, <<"f", "o", "l", "d", "e", "r">>, <<"K", "e", "y", "w", "o", "r", "d", "s">>, <<"O", "t", "h", "e", "r">>}

InitMatches ==
    /\ NamingIdle
    /\ ClassifyIdle
    /\ LoadIdle
    /\ PlaceholdersIdle
    /\ callee = "matches"
    /\ \E raw \in MatchRaws, target \in MatchTargets, pattern \in MatchPatterns :
          call_args = [trigger |-> RegexTrigger(IntVal(1), target, pattern), raw |-> raw]
    /\ call_returned = FALSE
    /\ call_result = <<>>

\* trigger.matches(record) for the record built from the raw fields
Matches ==
    /\ callee = "matches"
    /\ ~call_returned
    /\ call_result' = matches(call_args.trigger, FileRecord(call_args.raw))
    /\ call_returned' = TRUE
    /\ UNCHANGED <<callee, call_args>>
    /\ UNCHANGED otherThanCall

NextMatches == Matches

SpecMatches == InitMatches /\ [][NextMatches]_vars

----------------------------------------------------------------------------
(* A run of either engine *)

Init ==
    \/ InitNaming
    \/ InitRules
    \/ InitPopulate
    \/ InitClassify
    \/ InitLoad
    \/ InitPlaceholders
    \/ InitDeriveDate
    \/ InitCondition
    \/ InitMatches

Next ==
    \/ NextNaming
    \/ NextNullScore
    \/ NextExt
    \/ NextRaising
    \/ NextRules
    \/ NextPopulate
    \/ NextReclassify
    \/ NextBonus
    \/ NextLoad
    \/ NextPlaceholders
    \/ NextDeriveDate
    \/ NextCondition
    \/ NextMatches

Spec == Init /\ [][Next]_vars

----------------------------------------------------------------------------
(* Properties of conflict resolution *)

\* the strategy rewrites names
Resolving == settings.HandleDuplicates \in {"AddVersion", "AppendRank"}

\* the entries that shared destination path p when handle_conflicts was called
Sharing(p) == {i \in 1..Len(candidates) : candidates[i].NewPath = p}

SharedPaths ==
    {p \in {candidates[i].NewPath : i \in 1..Len(candidates)} : Cardinality(Sharing(p)) > 1}

Groups == {Sharing(p) : p \in SharedPaths}

\* entry i comes before entry j in a stable descending sort by Score
Outranks(i, j) ==
    \/ ScoreKey(candidates[i]).v > ScoreKey(candidates[j]).v
    \/ ScoreKey(candidates[i]).v = ScoreKey(candidates[j]).v /\ i < j

\* the 1-based position of entry i in its sorted group
PositionInGroup(g, i) == 1 + Cardinality({j \in g : Outranks(j, i)})

Versioned(name, k) ==
    SubSeq(name, 1, Len(name) - Len(PathSuffix(name)))
        \o <<"_", "v">> \o IntStr(k) \o PathSuffix(name)

\* C1: after a run with AddVersion or AppendRank no two entries of the returned
\* rename mappings have the same NewPath.
C1_NoSharedNewPath ==
    (phase = "done" /\ Resolving) =>
        \A i, j \in 1..Len(rename_mappings) :
            i # j => rename_mappings[i].NewPath # rename_mappings[j].NewPath

\* C2: the N > 1 entries that shared one destination path have N pairwise
\* distinct destination paths after resolution under AddVersion or AppendRank.
C2_GroupEndsDistinct ==
    (phase = "done" /\ Resolving) =>
        \A g \in Groups :
            Cardinality({rename_mappings[i].NewPath : i \in g}) = Cardinality(g)

\* C3: in every conflict group exactly one entry keeps its NewFileName and
\* NewPath: the entry with the highest Score, and among entries with that Score
\* the one earliest in the list.
C3_TopKeepsName ==
    (phase = "done" /\ Resolving) =>
        \A g \in Groups : \A i \in g :
            IF \A j \in g \ {i} : Outranks(i, j)
            THEN rename_mappings[i] = candidates[i]
            ELSE /\ rename_mappings[i].NewFileName # candidates[i].NewFileName
                 /\ rename_mappings[i].NewPath # candidates[i].NewPath

\* a group of three or more whose first entry loses to two later entries of
\* equal Score: the earlier of those two keeps the name
C3_Witness ==
    /\ phase = "done" /\ Resolving
    /\ \E g \in Groups : \E i, j, k \in g :
          /\ i < j /\ j < k
          /\ ScoreKey(candidates[i]).v < ScoreKey(candidates[j]).v
          /\ ScoreKey(candidates[j]).v = ScoreKey(candidates[k]).v
          /\ rename_mappings[j] = candidates[j]
          /\ rename_mappings[k] # candidates[k]

\* C4: under AddVersion the entry at 1-based position k >= 2 of the sorted
\* group is named <stem>_v{k}<extension>, the top entry keeps its name, and the
\* N entries of a group end with N different names (_v2 .. _vN, never _v1).
C4_VersionByPosition ==
    (phase = "done" /\ settings.HandleDuplicates = "AddVersion") =>
        \A g \in Groups :
            /\ \A i \in g :
                  rename_mappings[i].NewFileName =
                      IF PositionInGroup(g, i) = 1 THEN candidates[i].NewFileName
                      ELSE Versioned(candidates[i].NewFileName, PositionInGroup(g, i))
            /\ Cardinality({rename_mappings[i].NewFileName : i \in g}) = Cardinality(g)
            /\ \A i \in g :
                  rename_mappings[i].NewFileName # Versioned(candidates[i].NewFileName, 1)

\* a group of four in which the first entry of the list is sorted last
C4_Witness ==
    /\ phase = "done" /\ settings.HandleDuplicates = "AddVersion"
    /\ \E g \in Groups :
          /\ Cardinality(g) = 4
          /\ 1 \in g
          /\ rename_mappings[1].NewFileName = <<"P", "_", "v", "4", ".", "h">>

\* C5: with a pattern "<stem>.{ext}", an Extension ".X" and no "ext" in the
\* chosen mapping, the auto-populated value is "X" and the name is "<stem>.X".
C5_SingleDot ==
    \A i \in 1..Len(rename_mappings) :
        (/\ rename_mappings[i].PatternUsed = <<"P", ".", "{", "e", "x", "t", "}">>
         /\ rename_mappings[i].OriginalFile.Extension = <<".", "h">>)
        => /\ \E k \in 1..Len(rename_mappings[i].Mapping) :
                 rename_mappings[i].Mapping[k] = Pair(ExtKey, <<"h">>)
           /\ rename_mappings[i].NewFileName = <<"P", ".", "h">>

\* C6: with any other HandleDuplicates value the run completes, every entry
\* keeps its NewFileName and NewPath, and Summary.Conflicts reports the
\* conflicts.
C6_OtherStrategyCompletes ==
    ~Resolving =>
        /\ phase # "raised"
        /\ phase = "done" =>
              /\ rename_mappings = candidates
              /\ summary.Conflicts = Cardinality(SharedPaths)

\* C7: Summary.Conflicts is the number of destination paths that more than one
\* entry shared before any rewriting, whatever the strategy.
C7_ConflictCount ==
    phase = "done" => summary.Conflicts = Cardinality(SharedPaths)

\* two shared paths under a strategy that rewrites nothing
C7_Witness ==
    /\ phase = "done" /\ ~Resolving
    /\ summary.Conflicts = 2
    /\ Len(rename_mappings) = 4

----------------------------------------------------------------------------
(* Properties of classification *)

\* the record the loop has just gone through
LastRecord == records[Len(records)]

\* choose_best_category has been given a score map for the last record
LastWasScored == records # <<>> /\ Len(records) \notin raised_at /\ DOMAIN last_scores # {}

\* position i of records is in the bucket `name` exactly once
InBucket(name, i) ==
    /\ name \in DOMAIN buckets
    /\ Cardinality({k \in 1..Len(buckets[name]) : buckets[name][k] = i}) = 1

\* C8: when the maximum of the score map is > 0 the winner holds the maximum,
\* and every category before it in the priority order has a strictly smaller
\* score.
C8_EarliestOfBest ==
    (LastWasScored /\ \E n \in DOMAIN last_scores : last_scores[n] > 0) =>
        /\ LastRecord.winning_category \in DOMAIN last_scores
        /\ LastRecord.winning_score = last_scores[LastRecord.winning_category]
        /\ \A n \in DOMAIN last_scores : last_scores[n] <= LastRecord.winning_score
        /\ \A k \in 1..Len(priority) :
              priority[k] = LastRecord.winning_category =>
                  \A j \in 1..(k - 1) : last_scores[priority[j]] < LastRecord.winning_score

\* Strategy_Documents is first in the priority order and ties with
\* Interview_Transcripts, which is declared first, at 2: it wins
C8_Witness ==
    /\ LastWasScored
    /\ priority[1] = "Strategy_Documents"
    /\ last_scores["Interview_Transcripts"] = 2
    /\ last_scores["Strategy_Documents"] = 2
    /\ LastRecord.winning_category = "Strategy_Documents"

\* C9: every record is either Unknown with score 0 or in a configured category
\* with a score > 0; a record whose every category score is 0 is in the Unknown
\* bucket.
C9_ZeroNeverWins ==
    /\ \A i \in 1..Len(records) :
          \/ records[i].winning_category = "Unknown" /\ records[i].winning_score = 0
          \/ records[i].winning_category \in DOMAIN configs /\ records[i].winning_score > 0
    /\ (LastWasScored /\ \A n \in DOMAIN last_scores : last_scores[n] = 0) =>
          /\ LastRecord.winning_category = "Unknown"
          /\ InBucket("Unknown", Len(records))

\* a record that no trigger and no bonus gives a point
C9_Witness ==
    /\ LastWasScored
    /\ \A n \in DOMAIN last_scores : last_scores[n] = 0
    /\ InBucket("Unknown", Len(records))

\* C10: a record whose processing raised is Unknown with score 0 and in the
\* Unknown bucket, the error count is the number of such records, and every
\* other record, also one after a raise, is classified as it would be alone.
C10_ErrorIsolation ==
    /\ errors = Cardinality(raised_at)
    /\ \A i \in raised_at :
          /\ records[i].winning_category = "Unknown"
          /\ records[i].winning_score = 0
          /\ InBucket("Unknown", i)
    /\ \A i \in (1..Len(records)) \ raised_at :
          /\ records[i] = ClassifyOne(FileRecord(records[i].raw)).record
          /\ InBucket(records[i].winning_category, i)

\* two records raise, and the one between them wins a configured category
C10_Witness ==
    /\ cphase = "returned"
    /\ raised_at = {1, 3}
    /\ errors = 2
    /\ records[2].winning_category = "Strategy_Documents"

\* the fields a classification writes on a record
Outcome(record) ==
    <<record.winning_category, record.winning_score, record.category_scores,
      record.matched_triggers, record.insights>>

\* C11: classifying a record a second time with the same classifier leaves its
\* winning category, winning score, category scores, matched triggers and
\* insights as the first classification wrote them: nothing accumulates
C11_Idempotent ==
    cphase \in {"again", "returned_again"} =>
        \A i \in 1..Len(records) : Outcome(records[i]) = Outcome(first_run[i])

\* a second call went through a record that won on a trigger and a bonus, and
\* through one whose classification raised
C11_Witness ==
    /\ cphase = "returned_again"
    /\ Len(records) = 2
    /\ records[1].winning_score = 3
    /\ DOMAIN records[1].category_scores = {"Interview_Transcripts", "Strategy_Documents"}
    /\ raised_at = {2}

\* the sum of the scores of the triggers of a list that match the record
RECURSIVE MatchingScore(_, _)
MatchingScore(triggers, record) ==
    IF triggers = <<>> THEN 0
    ELSE (IF matches(Head(triggers), record) THEN Head(triggers).score.v ELSE 0)
         + MatchingScore(Tail(triggers), record)

\* the number of bonus rules aimed at a category whose condition holds
BonusCount(name, record) ==
    (IF name = "Interview_Transcripts" /\ record.insights.Festivals # {} THEN 1 ELSE 0)
    + (IF name = "Strategy_Documents" /\ record.insights.Festivals # {} THEN 1 ELSE 0)
    + (IF name = "Production_Documents" /\ "production_meta" \in record.insights.ContextFlags
       THEN 1 ELSE 0)
    + (IF name = "Data_Reports" /\ "subject_research" \in record.insights.ContextFlags
       THEN 1 ELSE 0)
    + (IF name = "Interview_Transcripts"
          /\ "technical_interview" \in record.insights.ContextFlags THEN 1 ELSE 0)

\* the heuristic entries of a trace
HeuristicEntries(trace) == {k \in 1..Len(trace) : trace[k].type = "Heuristic"}

\* the categories the bonus rules aim at
BonusTargets ==
    {"Interview_Transcripts", "Strategy_Documents", "Production_Documents", "Data_Reports"}

\* C12: the score of a category is the sum of the scores of its matching
\* triggers plus one point for each bonus rule aimed at it whose condition
\* holds; a bonus rule aimed at a category that is not configured adds no
\* score and no trace entry
C12_ScoreIsTriggersPlusBonus ==
    LastWasScored =>
        /\ DOMAIN last_scores = DOMAIN configs
        /\ \A name \in DOMAIN configs :
              last_scores[name] = MatchingScore(configs[name], LastRecord)
                                  + BonusCount(name, LastRecord)
        /\ \A name \in DOMAIN LastRecord.matched_triggers :
              /\ name \in DOMAIN configs
              /\ Cardinality(HeuristicEntries(LastRecord.matched_triggers[name]))
                    = BonusCount(name, LastRecord)
        /\ \A name \in BonusTargets \ DOMAIN configs :
              /\ name \notin DOMAIN last_scores
              /\ name \notin DOMAIN LastRecord.category_scores
              /\ name \notin DOMAIN LastRecord.matched_triggers

\* a production file with an interview and an audio keyword: the trigger and
\* one bonus make 3 for Interview_Transcripts, and the rule aimed at
\* Production_Documents, which is not configured, applies
C12_Witness ==
    /\ LastWasScored
    /\ "production_meta" \in LastRecord.insights.ContextFlags
    /\ "Production_Documents" \notin DOMAIN configs
    /\ MatchingScore(configs["Interview_Transcripts"], LastRecord) = 2
    /\ last_scores["Interview_Transcripts"] = 3

\* no trigger of any category matches the last record
NoTriggerMatches ==
    \A name \in DOMAIN configs : MatchingScore(configs[name], LastRecord) = 0

SomeTriggerMatches(name) ==
    \E k \in 1..Len(configs[name]) : matches(configs[name][k], LastRecord)

\* C14: after a successful classification category_scores holds exactly the
\* categories whose score is > 0, each with that score, and matched_triggers
\* holds exactly the categories with at least one trace entry; no stored score
\* is 0 and no stored trace is empty
C14_OnlyPositiveStored ==
    /\ \A i \in 1..Len(records) :
          /\ \A name \in DOMAIN records[i].category_scores :
                records[i].category_scores[name] > 0
          /\ \A name \in DOMAIN records[i].matched_triggers :
                records[i].matched_triggers[name] # <<>>
    /\ LastWasScored =>
          /\ DOMAIN LastRecord.category_scores
                = {name \in DOMAIN last_scores : last_scores[name] > 0}
          /\ \A name \in DOMAIN LastRecord.category_scores :
                LastRecord.category_scores[name] = last_scores[name]
          /\ DOMAIN LastRecord.matched_triggers
                = {name \in DOMAIN configs :
                      SomeTriggerMatches(name) \/ BonusCount(name, LastRecord) > 0}

\* research kept as a table: Data_Reports is stored with 2 and a trace of
\* two entries, the two categories at 0 are stored nowhere
C14_Witness ==
    /\ LastWasScored
    /\ last_scores["Interview_Transcripts"] = 0
    /\ last_scores["Strategy_Documents"] = 0
    /\ last_scores["Data_Reports"] = 2
    /\ DOMAIN LastRecord.category_scores = {"Data_Reports"}
    /\ Len(LastRecord.matched_triggers["Data_Reports"]) = 2

----------------------------------------------------------------------------
(* Properties of loading the config *)

\* the first position of a name in a list
FirstIndex(names, name) ==
    CHOOSE k \in 1..Len(names) : names[k] = name /\ \A j \in 1..(k - 1) : names[j] # name

\* where a configured category belongs: at its first place in the explicit
\* list, or after that list at its place in the declaration order
PriorityRank(name) ==
    IF name \in SeqToSet(explicit_priority) THEN FirstIndex(explicit_priority, name)
    ELSE Len(explicit_priority) + FirstIndex(CategoryNames(loaded_categories), name)

\* C15: the priority sequence of the classifier holds every configured category
\* exactly once and nothing else, the categories named in the explicit list
\* first, in the order of that list, then the others in declaration order; the
\* bucket map has the key Unknown
C15_PriorityOrder ==
    lphase = "constructed" =>
        /\ SeqToSet(priority) = SeqToSet(CategoryNames(loaded_categories))
        /\ SeqToSet(priority) = DOMAIN configs
        /\ Len(priority) = Cardinality(SeqToSet(priority))
        /\ \A i, j \in 1..Len(priority) :
              i < j => PriorityRank(priority[i]) < PriorityRank(priority[j])
        /\ "Unknown" \in DOMAIN buckets
        /\ DOMAIN buckets = SeqToSet(priority) \cup {"Unknown"}

\* the explicit list names Strategy_Documents twice and a category that is not
\* configured; three categories are declared
C15_Witness ==
    /\ lphase = "constructed"
    /\ explicit_priority = <<"Strategy_Documents", "Ghost", "Strategy_Documents">>
    /\ CategoryNames(loaded_categories)
          = <<"Interview_Transcripts", "Strategy_Documents", "Data_Reports">>
    /\ priority = <<"Strategy_Documents", "Interview_Transcripts", "Data_Reports">>

\* a payload whose construction fails, as the kinds of failure are listed
MalformedScore(payload) ==
    payload.Score.t \in {"absent", "null"} \/ (payload.Score.t = "int" /\ payload.Score.v <= 0)

MalformedBody(payload, trigger_type) ==
    \/ trigger_type \notin {RegexType, KeywordType, ExtensionType}
    \/ trigger_type = RegexType
          /\ (payload.Pattern.t # "str" \/ payload.Pattern.v = <<>> \/ ~Compiles(payload.Pattern.v))
    \/ trigger_type \in {KeywordType, ExtensionType}
          /\ (payload.Values.t # "list" \/ payload.Values.v = <<>>)

Malformed(payload) ==
    MalformedScore(payload) \/ MalformedBody(payload, Lower(Strip(payload.Type)))

\* the payloads of a list that are well formed, in their order
WellFormed(list) == SelectSeq(list, LAMBDA payload : ~Malformed(payload))

\* C16: loading never aborts because of a malformed trigger: a payload whose
\* construction fails is skipped alone, and each category is loaded with one
\* trigger for each of its well-formed payloads
C16_MalformedSkippedAlone ==
    /\ lphase # "aborted"
    /\ \A c \in 1..Len(loaded_categories) :
          Len(loaded_categories[c].triggers) = Len(WellFormed(payloads[c]))

----------------------------------------------------------------------------
(* Properties of placeholder substitution *)

\* C19: the text replace_placeholders returns holds no "{" and no "}" left
\* over from the pattern
C19_NoBraceLeft ==
    pphase = "substituted" =>
        \A i \in 1..Len(substituted) : substituted[i] \notin {"{", "}"}

----------------------------------------------------------------------------
(* Properties of the choice of the mapping *)

\* the keys process_classification fills in by itself
AutoKeys == {DateKey, ExtKey, RankKey}

\* the items of the mapping of an entry that come from the config
RuleItems(entry) == SelectSeq(entry.Mapping, LAMBDA item : item.key \notin AutoKeys)

\* the rules of a rule set all of whose condition keys the context satisfies
Satisfied(category_config, context) ==
    {i \in 1..Len(category_config.Rules) : RuleMatches(category_config.Rules[i], context)}

\* the mapping of the first satisfied rule in declared order, or the
\* DefaultMapping, which is empty where none is configured
DeclaredMapping(category_config, context) ==
    IF Satisfied(category_config, context) = {} THEN category_config.DefaultMapping
    ELSE category_config.Rules[CHOOSE i \in Satisfied(category_config, context) :
                                   \A j \in Satisfied(category_config, context) : i <= j].Mapping

\* C17: the mapping used for a file is that of the first rule, in declared
\* order, all of whose condition keys are satisfied, whatever later rules
\* match; with no such rule it is the DefaultMapping of the category, or the
\* empty mapping when there is none
C17_FirstRuleWins ==
    \A k \in 1..Len(rename_mappings) :
        RuleItems(rename_mappings[k])
            = DeclaredMapping(RulesInput[rename_mappings[k].Category],
                              build_context(rename_mappings[k].OriginalFile))

\* a file all three rules of Web_Content match is named by the first, a file
\* that matches none by the DefaultMapping, and a file of Unknown that matches
\* no rule by the empty mapping
C17_Witness ==
    /\ Len(rename_mappings) = 3
    /\ rename_mappings[1].Category = "Web_Content"
    /\ Satisfied(RulesInput["Web_Content"], build_context(rename_mappings[1].OriginalFile))
          = {1, 2, 3}
    /\ RuleItems(rename_mappings[1]) = << Pair(<<"N">>, <<"A">>) >>
    /\ rename_mappings[2].Category = "Web_Content"
    /\ RuleItems(rename_mappings[2]) = << Pair(<<"N">>, <<"D">>) >>
    /\ rename_mappings[3].Category = "Unknown"
    /\ RuleItems(rename_mappings[3]) = <<>>
    /\ rename_mappings[3].NewFileName = <<"U", "n", "k", "n", "o", "w", "n", ".", "h">>

\* the values an entry holds for a key
ValuesFor(entry, key) ==
    {entry.Mapping[i].value : i \in {j \in 1..Len(entry.Mapping) : entry.Mapping[j].key = key}}

\* C18: naming leaves the config as it was: every Mapping and DefaultMapping
\* is what it was before the run, and the ext and Rank an entry holds are
\* those of its own file, never those filled in for another file
C18_ConfigUntouched ==
    /\ config = RulesInput
    /\ \A k \in 1..Len(rename_mappings) :
          /\ ValuesFor(rename_mappings[k], ExtKey)
                = {build_context(rename_mappings[k].OriginalFile).extension}
          /\ ValuesFor(rename_mappings[k], RankKey) = {}
          /\ ValuesFor(rename_mappings[k], DateKey) = {}

\* two files of different extensions were named by the same rule, one after
\* the other, and the run is over
C18_Witness ==
    /\ phase = "done"
    /\ Len(rename_mappings) >= 2
    /\ rename_mappings[1].Category = "Unknown"
    /\ rename_mappings[2].Category = "Unknown"
    /\ RuleItems(rename_mappings[1]) = << Pair(<<"N">>, <<"A">>) >>
    /\ RuleItems(rename_mappings[2]) = << Pair(<<"N">>, <<"A">>) >>
    /\ ValuesFor(rename_mappings[1], ExtKey) = {<<".", "h">>}
    /\ ValuesFor(rename_mappings[2], ExtKey) = {<<".", "c">>}

----------------------------------------------------------------------------
(* Properties of the categories that cannot be named *)

\* the step visits a category that has no rule set, or whose rule set has no
\* Pattern
VisitsUnnamed == \E c \in seenCats' \ seenCats : ~HasPattern(c)

\* C20: a category with files and without a rule set, or with a rule set
\* without a Pattern, is skipped and the run goes on: no entry is made for its
\* files, Errors grows by the number of its files, and the other categories
\* can still be named
C20_SkippedNotFatal ==
    [][VisitsUnnamed =>
          /\ rename_mappings' = rename_mappings
          /\ consumed' > consumed
          /\ summary'.Errors = summary.Errors + (consumed' - consumed)
          /\ summary'.TotalFiles = summary.TotalFiles
          /\ summary'.FilesRenamed = summary.FilesRenamed
          /\ phase' = "naming"
          /\ \A c \in DOMAIN config : HasPattern(c) /\ c \notin seenCats => MayVisit(c)']_vars

\* two files of Misc, which has no rule set, and one of Archive, which has no
\* Pattern, were skipped; a file of Web_Content was named after them
C20_Witness ==
    /\ {"Misc", "Archive"} \subseteq seenCats
    /\ curCategory = "Web_Content"
    /\ summary.Errors = 3
    /\ summary.TotalFiles = 1
    /\ Len(rename_mappings) = 1
    /\ rename_mappings[1].Category = "Web_Content"

----------------------------------------------------------------------------
(* Properties of the naming run as a whole *)

\* C21: the naming batch is never aborted: whatever the Score of the files
\* that share a destination, null included, conflict resolution ends and
\* process_classification returns its summary and its rename mappings
C21_BatchNeverAborts == phase # "raised"

\* the step in which handle_conflicts is called
ResolutionStarts == phase = "naming" /\ phase' # "naming"

\* every file entry read so far has a candidate entry or is counted in Errors
AllAccounted == Len(rename_mappings) + summary.Errors = consumed

\* C23: conflict resolution starts only when every record of every category
\* read has produced a candidate entry or been counted as an error; it is
\* handed all the candidates, runs once, and once it has started no entry is
\* added and no counter moves
C23_ResolutionLastAndOnce ==
    [][/\ ResolutionStarts => (AllAccounted /\ candidates' = rename_mappings)
       /\ phase # "naming" => UNCHANGED namingVars]_vars

\* a run over a skipped category and a named one has returned
C23_Witness ==
    /\ phase = "done"
    /\ Cardinality(seenCats) >= 2
    /\ Len(candidates) >= 2
    /\ summary.Errors >= 1

----------------------------------------------------------------------------
(* Properties of derive_date *)

\* a token of one of the forms stands at position i of the name and names a
\* calendar date
ValidTokenAt(s, i) ==
    /\ CompactTokenAt(s, i) \/ SeparatedTokenAt(s, i)
    /\ TokenDateAt(s, i) # NoDate

ValidTokenDates(s) == {TokenDateAt(s, i) : i \in {j \in 1..Len(s) : ValidTokenAt(s, j)}}

Parses(modified_value) ==
    modified_value # <<>> /\ ParseModified(modified_value) # NoDate

\* C22: the date of a file is the date of a valid token of its name whenever
\* the name holds one, whatever Modified is; without one it is the parsed
\* Modified value when that parses; it is the clock only when both fail
C22_DatePrecedence ==
    (callee = "derive_date" /\ call_returned) =>
        IF ValidTokenDates(call_args.file_name) # {}
        THEN call_result \in ValidTokenDates(call_args.file_name)
        ELSE IF Parses(call_args.modified_value)
        THEN call_result = ParseModified(call_args.modified_value)
        ELSE call_result = call_args.now

----------------------------------------------------------------------------
(* Properties of evaluate_condition *)

\* the FileRecord the classifier builds for the file the entry describes
RecordOf(file_entry) ==
    FileRecord([FileName  |-> file_entry.FileName,
                FullPath  |-> file_entry.FullPath,
                Directory |-> file_entry.Directory,
                Keywords  |-> file_entry.Keywords.v,
                Extension |-> file_entry.Extension])

ConditionEvaluated == callee = "evaluate_condition" /\ call_returned

\* the Keyword trigger from_dict builds for the keywords a condition lists
TriggerFor(expected) == KeywordTrigger(IntVal(1), LoweredValues(expected))

\* C24: a Keywords condition is satisfied exactly when the Keyword trigger
\* with the same keywords matches the file: when any of the keywords listed
\* is one of the file's keywords
C24_KeywordsAsTrigger ==
    (/\ ConditionEvaluated
     /\ Lower(call_args.key) = <<"k", "e", "y", "w", "o", "r", "d", "s">>
     /\ call_args.expected # <<>>)
        => call_result = matches(TriggerFor(call_args.expected), RecordOf(call_args.file_entry))

\* the names get_text_for_target has for the file name, the full path and
\* the directory
TargetNames == {<<"f", "i", "l", "e", "n", "a", "m", "e">>, <<"n", "a", "m", "e">>, <<"f", "u", "l", "l", "p", "a", "t", "h">>, <<"p", "a", "t", "h">>, <<"d", "i", "r", "e", "c", "t", "o", "r", "y">>, <<"f", "o", "l", "d", "e", "r">>}

TargetText(file_entry, key) == get_text_for_target(RecordOf(file_entry), key)

\* C25: a condition whose key is one of the names the Regex trigger targets
\* go by, in any case, is the search of its pattern in the field of that
\* name
C25_KeysAsTargets ==
    (/\ ConditionEvaluated
     /\ Lower(call_args.key) \in TargetNames
     /\ TargetText(call_args.file_entry, call_args.key) # <<>>)
        => call_result = RegexSearch(call_args.expected[1],
                                     TargetText(call_args.file_entry, call_args.key))

----------------------------------------------------------------------------
(* Properties of the placeholders the run fills in *)

\* the items of a mapping under one key
ItemsFor(mapping, key) == SelectSeq(mapping, LAMBDA item : item.key = key)

\* the mapping apply_rules chose for the file of an entry
Supplied(entry) == apply_rules(config[entry.Category], build_context(entry.OriginalFile))

Referenced(entry, key) == Contains(entry.PatternUsed, Token(key))

\* C26: Date, ext and Rank are filled in exactly when the pattern names the
\* placeholder and the chosen mapping has no entry of that key: a value the
\* mapping supplies stays as it is, and a key the pattern does not name is
\* not added
C26_FilledWhenNamedAndMissing ==
    \A k \in 1..Len(rename_mappings) : \A key \in AutoKeys :
        IF HasKey(Supplied(rename_mappings[k]), key)
        THEN ItemsFor(rename_mappings[k].Mapping, key)
                 = ItemsFor(Supplied(rename_mappings[k]), key)
        ELSE Len(ItemsFor(rename_mappings[k].Mapping, key))
                 = IF Referenced(rename_mappings[k], key) THEN 1 ELSE 0

\* the run named a file whose rule supplies Date and ext, a file of the same
\* category for which both were filled in, and a file of Plain, whose pattern
\* names neither
C26_Witness ==
    /\ phase = "done"
    /\ Len(rename_mappings) >= 3
    /\ rename_mappings[1].Category = "Dated"
    /\ ItemsFor(rename_mappings[1].Mapping, DateKey) = << Pair(DateKey, <<"D">>) >>
    /\ ItemsFor(rename_mappings[1].Mapping, ExtKey) = << Pair(ExtKey, <<".", "x">>) >>
    /\ rename_mappings[2].Category = "Dated"
    /\ ~HasKey(Supplied(rename_mappings[2]), DateKey)
    /\ ItemsFor(rename_mappings[2].Mapping, ExtKey) = << Pair(ExtKey, <<".", "h">>) >>
    /\ Len(ItemsFor(rename_mappings[2].Mapping, DateKey)) = 1
    /\ rename_mappings[3].Category = "Plain"
    /\ ~HasKey(rename_mappings[3].Mapping, ExtKey)
    /\ ~HasKey(rename_mappings[3].Mapping, RankKey)

----------------------------------------------------------------------------
(* What conflict resolution leaves alone *)

\* entry i shared its destination with an entry that comes before it in the
\* sorted group
Loser(i) == \E g \in Groups : i \in g /\ \E j \in g : Outranks(j, i)

\* entry i as it was, but for its NewFileName and NewPath
ButForName(i) ==
    [candidates[i] EXCEPT !.NewFileName = rename_mappings[i].NewFileName,
                          !.NewPath = rename_mappings[i].NewPath]

\* C27: conflict resolution adds, removes and moves no entry, and changes
\* nothing but the NewFileName and NewPath of the entries that are not first
\* in a group of more than one: an entry alone on its path and the first of
\* each group are as they were, a rewritten NewPath has the parent it had,
\* and every other field of every entry is as it was
C27_OnlyLosersRenamed ==
    phase = "done" =>
        /\ Len(rename_mappings) = Len(candidates)
        /\ \A i \in 1..Len(candidates) :
              /\ rename_mappings[i] = ButForName(i)
              /\ PathParent(rename_mappings[i].NewPath) = PathParent(candidates[i].NewPath)
              /\ ~Loser(i) => rename_mappings[i] = candidates[i]

\* a resolved run with a renamed entry, the first of its group, and an entry
\* alone on its path
C27_Witness ==
    /\ phase = "done" /\ Resolving
    /\ \E i, j, k \in 1..Len(candidates) :
          /\ Loser(i) /\ rename_mappings[i] # candidates[i]
          /\ candidates[j].NewPath = candidates[i].NewPath /\ ~Loser(j)
          /\ \A g \in Groups : k \notin g

----------------------------------------------------------------------------
(* Properties of Trigger.matches *)

\* the text of the field a trigger looks at
FieldText(trigger, raw) == get_text_for_target(FileRecord(raw), trigger.target)

\* C28: a Regex trigger matches exactly when the search of its pattern in
\* the text of its target field succeeds, whatever that text is, the empty
\* text included
C28_RegexIsSearch ==
    (callee = "matches" /\ call_returned /\ call_args.trigger.type = "regex") =>
        call_result = RegexSearch(call_args.trigger.pattern.v,
                                  FieldText(call_args.trigger, call_args.raw))

----------------------------------------------------------------------------
(* The summary process_classification returns *)

\* C29: in the summary returned, FilesRenamed is the number of rename
\* entries, TotalFiles is FilesRenamed plus the number of files whose
\* processing raised, and FilesRenamed plus Errors is the number of file
\* entries of the input: the files of a skipped category are in Errors and
\* not in TotalFiles
C29_SummaryAccounts ==
    phase = "done" =>
        /\ summary.FilesRenamed = Len(rename_mappings)
        /\ summary.TotalFiles = summary.FilesRenamed + failed
        /\ summary.FilesRenamed + summary.Errors = consumed
        /\ summary.Errors - failed = consumed - summary.TotalFiles

\* a run that named a file, counted a file that raised and skipped a
\* category of two files
C29_Witness ==
    /\ phase = "done"
    /\ Len(rename_mappings) = 1
    /\ failed = 1
    /\ summary.Errors = 3
    /\ summary.TotalFiles = 2

----------------------------------------------------------------------------
(* The buckets classify returns *)

\* the number of times record i is in the bucket of a name
TimesIn(name, i) == Cardinality({k \in 1..Len(buckets[name]) : buckets[name][k] = i})

RECURSIVE TotalSize(_)
TotalSize(names) ==
    IF names = {} THEN 0
    ELSE Len(buckets[CHOOSE n \in names : TRUE])
             + TotalSize(names \ {CHOOSE n \in names : TRUE})

\* C30: the buckets are a partition of the batch: every record is once in
\* the bucket of its winning_category and in no other bucket, and the sizes
\* of the buckets add up to the number of records, whether or not the
\* processing of a record raised
C30_BucketsPartition ==
    /\ \A i \in 1..Len(records) :
          /\ records[i].winning_category \in DOMAIN buckets
          /\ \A name \in DOMAIN buckets :
                TimesIn(name, i) = IF name = records[i].winning_category THEN 1 ELSE 0
    /\ TotalSize(DOMAIN buckets) = Len(records)

\* a batch of three of which one raised and one is in a configured category
C30_Witness ==
    /\ cphase = "returned"
    /\ Len(records) >= 3
    /\ raised_at # {}
    /\ \E name \in DOMAIN buckets \ {"Unknown"} : buckets[name] # <<>>
    /\ TotalSize(DOMAIN buckets) = Len(records)

====
